---- MODULE Spec2Model ----
(***************************************************************************)
(* Region balancing of geo_clustering.py: name reconciliation, adjacency   *)
(* merge (_balanced_merge), the no-geometry fallback and the orchestrator  *)
(* build_regions_for_recife.                                               *)
(*                                                                         *)
(* Strings are sequences of one-character strings in decomposed (NFKD)     *)
(* form: an accented letter is its base letter followed by the combining   *)
(* mark "'" ("c","'" is c-cedilla, "a","'" is a-tilde).                    *)
(***************************************************************************)
EXTENDS Integers, Sequences, FiniteSets, TLC

(* ------------------------------------------------------------------ *)
(* Characters and strings                                              *)
(* ------------------------------------------------------------------ *)

LowerChars == <<"a","b","c","d","e","f","g","h","i","j","k","l","m",
                "n","o","p","q","r","s","t","u","v","w","x","y","z">>
UpperChars == <<"A","B","C","D","E","F","G","H","I","J","K","L","M",
                "N","O","P","Q","R","S","T","U","V","W","X","Y","Z">>

Combining == {"'"}
Whitespace == {" "}

\* str.upper() / str.lower() on one character
UpperChar(c) ==
    IF \E i \in 1..Len(LowerChars) : LowerChars[i] = c
    THEN UpperChars[CHOOSE i \in 1..Len(LowerChars) : LowerChars[i] = c]
    ELSE c

LowerChar(c) ==
    IF \E i \in 1..Len(UpperChars) : UpperChars[i] = c
    THEN LowerChars[CHOOSE i \in 1..Len(UpperChars) : UpperChars[i] = c]
    ELSE c

\* code-point order of the characters the model uses
CharOrd(c) ==
    IF c = " " THEN 32
    ELSE IF c = ":" THEN 58
    ELSE IF \E i \in 1..26 : UpperChars[i] = c
         THEN 64 + (CHOOSE i \in 1..26 : UpperChars[i] = c)
    ELSE IF \E i \in 1..26 : LowerChars[i] = c
         THEN 96 + (CHOOSE i \in 1..26 : LowerChars[i] = c)
    ELSE 807

MapChars(Op(_), s) == [i \in 1..Len(s) |-> Op(s[i])]

RECURSIVE LStrip(_)
LStrip(s) == IF s # << >> /\ Head(s) \in Whitespace THEN LStrip(Tail(s)) ELSE s

RECURSIVE RStrip(_)
RStrip(s) ==
    IF s # << >> /\ s[Len(s)] \in Whitespace
    THEN RStrip(SubSeq(s, 1, Len(s) - 1))
    ELSE s

\* str.strip()
Strip(s) == RStrip(LStrip(s))

\* "".join(c for c in s if not unicodedata.combining(c))
DropCombining(s) == SelectSeq(s, LAMBDA c : c \notin Combining)

\* _normalize: NFKD, drop combining marks, upper, strip
Normalize(s) == Strip(MapChars(UpperChar, DropCombining(s)))

\* lexicographic s < t by code point
RECURSIVE StrLess(_, _)
StrLess(s, t) ==
    IF t = << >> THEN FALSE
    ELSE IF s = << >> THEN TRUE
    ELSE IF CharOrd(Head(s)) # CharOrd(Head(t))
         THEN CharOrd(Head(s)) < CharOrd(Head(t))
    ELSE StrLess(Tail(s), Tail(t))

RegionPrefix == <<"r","e","g","i","a","'","o",":"," ">>

RegionLabel_NoLower(name) == RegionPrefix \o Strip(name)

\* f"regiao: {name.strip().lower()}"
RegionLabel(name) == RegionPrefix \o MapChars(LowerChar, Strip(name))

(* ------------------------------------------------------------------ *)
(* difflib.get_close_matches                                           *)
(* ------------------------------------------------------------------ *)

\* a[i+1 .. i+k] = b[j+1 .. j+k]   (0-based offsets i, j)
BlockEq(a, b, i, j, k) == \A d \in 1..k : a[i + d] = b[j + d]

\* SequenceMatcher.find_longest_match(alo, ahi, blo, bhi): the longest block,
\* of those the earliest in a, of those the earliest in b; <<i, j, k>>
FindLongestMatch(a, b, alo, ahi, blo, bhi) ==
    LET Cand == {c \in (alo..(ahi - 1)) \X (blo..(bhi - 1)) \X (1..(ahi - alo)) :
                    /\ c[1] + c[3] <= ahi
                    /\ c[2] + c[3] <= bhi
                    /\ BlockEq(a, b, c[1], c[2], c[3])}
    IN IF Cand = {} THEN <<alo, blo, 0>>
       ELSE CHOOSE c \in Cand : \A o \in Cand :
                \/ c[3] > o[3]
                \/ c[3] = o[3] /\ c[1] < o[1]
                \/ c[3] = o[3] /\ c[1] = o[1] /\ c[2] <= o[2]

\* total size of SequenceMatcher.get_matching_blocks()
RECURSIVE MatchCount(_, _, _, _, _, _)
MatchCount(a, b, alo, ahi, blo, bhi) ==
    IF alo >= ahi \/ blo >= bhi THEN 0
    ELSE LET m == FindLongestMatch(a, b, alo, ahi, blo, bhi)
         IN IF m[3] = 0 THEN 0
            ELSE m[3] + MatchCount(a, b, alo, m[1], blo, m[2])
                      + MatchCount(a, b, m[1] + m[3], ahi, m[2] + m[3], bhi)

Matches(a, b) == MatchCount(a, b, 0, Len(a), 0, Len(b))

\* SequenceMatcher(a=x, b=word).ratio() >= pct/100, in integers
\* (ratio = 2.0 * matches / (len(a) + len(b)); 1.0 when both are empty)
RatioAtLeast(a, b, pct) ==
    IF Len(a) + Len(b) = 0 THEN TRUE
    ELSE 200 * Matches(a, b) >= pct * (Len(a) + Len(b))

\* ratio(a1, w) < ratio(a2, w), cross-multiplied
RatioLess(a1, a2, w) ==
    LET n1 == IF Len(a1) + Len(w) = 0 THEN 1 ELSE 2 * Matches(a1, w)
        d1 == IF Len(a1) + Len(w) = 0 THEN 1 ELSE Len(a1) + Len(w)
        n2 == IF Len(a2) + Len(w) = 0 THEN 1 ELSE 2 * Matches(a2, w)
        d2 == IF Len(a2) + Len(w) = 0 THEN 1 ELSE Len(a2) + Len(w)
    IN n1 * d2 < n2 * d1

(* ------------------------------------------------------------------ *)
(* Names used as inputs                                                *)
(* ------------------------------------------------------------------ *)

S_Gracas    == <<"G","r","a","c","'","a","s">>
S_GRACAS    == <<"G","R","A","C","A","S">>
S_gracas    == <<"g","r","a","c","'","a","s"," ">>
S_Gracs     == <<"G","r","a","c","s">>
S_Torre     == <<"T","o","r","r","e">>
S_Torreao   == <<"T","o","r","r","e","a","'","o">>
S_Derby     == <<"D","e","r","b","y">>
S_DERBY     == <<"D","E","R","B","Y">>
S_Pina      == <<"P","i","n","a">>
S_Centro    == <<"C","e","n","t","r","o">>
S_A == <<"A">>
S_B == <<"B">>
S_C == <<"C">>
S_X == <<"X">>
S_Y == <<"Y">>
S_Z == <<"Z">>
S_BoaViagem == <<"B","o","a"," ","V","i","a","g","e","m">>
S_BoaViagen == <<"B","O","A"," ","V","I","A","G","E","N">>

(* ------------------------------------------------------------------ *)
(* Small helpers on sequences and functions                            *)
(* ------------------------------------------------------------------ *)

Range(s) == {s[i] : i \in 1..Len(s)}

\* list.index(v): first position of v
IndexOf(s, v) == CHOOSE i \in 1..Len(s) : s[i] = v /\ \A j \in 1..(i - 1) : s[j] # v

\* sorted(set of strings): ascending by code point
RECURSIVE SortedStrings(_)
SortedStrings(S) ==
    IF S = {} THEN << >>
    ELSE LET m == CHOOSE a \in S : \A b \in S : a = b \/ StrLess(a, b)
         IN <<m>> \o SortedStrings(S \ {m})

\* dict.get(k, default) on a function
Get(f, k, default) == IF k \in DOMAIN f THEN f[k] ELSE default

\* f with f[k] = v added or replaced
Put(f, k, v) == [q \in (DOMAIN f) \cup {k} |-> IF q = k THEN v ELSE f[q]]

EmptyMap == [q \in {} |-> << >>]

(* ------------------------------------------------------------------ *)
(* Name reconciliation                                                 *)
(* ------------------------------------------------------------------ *)

NoFile == [exists |-> FALSE, rows |-> << >>]

\* _load_manual_bairro_mapping: None, or {normalize(bairro): bairro_oficial},
\* a later row replacing an earlier one with the same normalized key
RECURSIVE ManualRows(_, _)
ManualRows(rows, acc) ==
    IF rows = << >> THEN acc
    ELSE ManualRows(Tail(rows), Put(acc, Normalize(Head(rows)[1]), Head(rows)[2]))

LoadManualBairroMapping(csv) ==
    IF csv.exists
    THEN [isNone |-> FALSE, d |-> ManualRows(csv.rows, EmptyMap)]
    ELSE [isNone |-> TRUE, d |-> EmptyMap]

\* the synonyms dict of _map_bairro_to_official; the accented keys are in
\* decomposed form
Synonyms ==
    LET BOAVIAGEM == <<"B","O","A"," ","V","I","A","G","E","M">>
        CASAFORTE == <<"C","A","S","A"," ","F","O","R","T","E">>
        SAOJOSE   == <<"S","A","O"," ","J","O","S","E">>
    IN  (BOAVIAGEM :> BOAVIAGEM) @@ (CASAFORTE :> CASAFORTE)
        @@ (<<"G","R","A","C","'","A","S">> :> S_GRACAS) @@ (S_GRACAS :> S_GRACAS)
        @@ (<<"S","A","'","O"," ","J","O","S","E","'">> :> SAOJOSE)
        @@ (SAOJOSE :> SAOJOSE)

FuzzyCutoffPct == 90

\* get_close_matches(word, possibilities, n=1, cutoff): the list holding the
\* possibility with the largest (ratio, string), of those with ratio >= cutoff
GetCloseMatches(word, possibilities, pct) ==
    LET ok == {x \in Range(possibilities) : RatioAtLeast(x, word, pct)}
    IN IF ok = {} THEN << >>
       ELSE <<CHOOSE x \in ok : \A y \in ok :
                  \/ RatioLess(y, x, word)
                  \/ ~RatioLess(x, y, word) /\ (y = x \/ StrLess(y, x))>>

\* off_norm = [_normalize(n) for n in official_names]
OffNorm(official_names) == [i \in 1..Len(official_names) |-> Normalize(official_names[i])]

\* line 212: manual and b_norm in manual
ManualHit(b, manual) ==
    ~manual.isNone /\ manual.d # EmptyMap /\ Normalize(b) \in DOMAIN manual.d

\* lines 215-216: b_norm after the synonyms
BNorm(b) == Get(Synonyms, Normalize(b), Normalize(b))

\* line 218
ExactHit(b, official_names) == BNorm(b) \in Range(OffNorm(official_names))

FuzzyMatch_Loose(b, official_names) == GetCloseMatches(BNorm(b), OffNorm(official_names), 60)

\* line 222
FuzzyMatch(b, official_names) ==
    GetCloseMatches(BNorm(b), OffNorm(official_names), FuzzyCutoffPct)

MapOne_NoManual(b, official_names, manual) ==
    IF ExactHit(b, official_names)
    THEN official_names[IndexOf(OffNorm(official_names), BNorm(b))]
    ELSE IF FuzzyMatch(b, official_names) # << >>
    THEN official_names[IndexOf(OffNorm(official_names), FuzzyMatch(b, official_names)[1])]
    ELSE b

MapOne_Normalized(b, official_names, manual) ==
    IF ManualHit(b, manual) THEN manual.d[Normalize(b)]
    ELSE IF ExactHit(b, official_names) THEN BNorm(b)
    ELSE IF FuzzyMatch(b, official_names) # << >> THEN FuzzyMatch(b, official_names)[1]
    ELSE b

\* one iteration of the loop of _map_bairro_to_official: the value of mapping[b]
MapOne(b, official_names, manual) ==
    IF ManualHit(b, manual) THEN manual.d[Normalize(b)]
    ELSE IF ExactHit(b, official_names)
    THEN official_names[IndexOf(OffNorm(official_names), BNorm(b))]
    ELSE IF FuzzyMatch(b, official_names) # << >>
    THEN official_names[IndexOf(OffNorm(official_names), FuzzyMatch(b, official_names)[1])]
    ELSE b

\* the loop of lines 210-228
RECURSIVE MapLoop(_, _, _, _)
MapLoop(bairros, official_names, manual, mapping) ==
    IF bairros = << >> THEN mapping
    ELSE MapLoop(Tail(bairros), official_names, manual,
                 Put(mapping, Head(bairros), MapOne(Head(bairros), official_names, manual)))

\* _map_bairro_to_official(bairros, official_names), the manual table read
\* from the file csv
MapBairroToOfficial(bairros, official_names, csv) ==
    MapLoop(bairros, official_names, LoadManualBairroMapping(csv), EmptyMap)

(* ------------------------------------------------------------------ *)
(* Insertion-ordered dicts: sequences of <<key, value>>, keys distinct  *)
(* ------------------------------------------------------------------ *)

ODKeys(d) == [i \in 1..Len(d) |-> d[i][1]]
ODValues(d) == [i \in 1..Len(d) |-> d[i][2]]
ODHas(d, k) == \E i \in 1..Len(d) : d[i][1] = k
ODGet(d, k, default) ==
    IF ODHas(d, k) THEN d[CHOOSE i \in 1..Len(d) : d[i][1] = k][2] ELSE default

\* d[k] = v: an existing key keeps its position
ODPut(d, k, v) ==
    IF ODHas(d, k)
    THEN [i \in 1..Len(d) |-> IF d[i][1] = k THEN <<k, v>> ELSE d[i]]
    ELSE Append(d, <<k, v>>)

\* dict(zip(keys, values))
RECURSIVE ODZip(_, _, _)
ODZip(keys, values, acc) ==
    IF keys = << >> \/ values = << >> THEN acc
    ELSE ODZip(Tail(keys), Tail(values), ODPut(acc, Head(keys), Head(values)))

RECURSIVE SumSeq(_)
SumSeq(s) == IF s = << >> THEN 0 ELSE Head(s) + SumSeq(Tail(s))

\* sorted(s, key=...): stable, ascending; key is a function on the elements
RECURSIVE InsertByKey(_, _, _)
InsertByKey(sorted, e, key) ==
    IF sorted = << >> THEN <<e>>
    ELSE IF key[e] < key[Head(sorted)] THEN <<e>> \o sorted
    ELSE <<Head(sorted)>> \o InsertByKey(Tail(sorted), e, key)

RECURSIVE StableSortBy(_, _)
StableSortBy(s, key) ==
    IF s = << >> THEN << >>
    ELSE InsertByKey(StableSortBy(SubSeq(s, 1, Len(s) - 1), key), s[Len(s)], key)

Digits == <<"1","2","3","4","5","6","7","8","9">>

\* str(uid) for the unit ids the model uses
StrOfInt(uid) == <<Digits[uid]>>

(* ------------------------------------------------------------------ *)
(* _balanced_merge                                                     *)
(*   a: its arguments [counts_by_unit, adjacency, id_by_name,          *)
(*      min_tx_per_region]; f: its local variables                     *)
(* ------------------------------------------------------------------ *)

\* _name_by_id
NameById(uid, id_by_name) ==
    LET hits == {i \in 1..Len(id_by_name) : id_by_name[i][2] = uid}
    IN IF hits = {} THEN StrOfInt(uid)
       ELSE id_by_name[CHOOSE i \in hits : \A j \in hits : i <= j][1]

\* counts_by_unit.get(_name_by_id(uid, id_by_name), 0)
CountOfId(a, uid) == Get(a.counts_by_unit, NameById(uid, a.id_by_name), 0)

SortByCount_Unsorted(a, ids) == ids

\* sorted(ids, key=lambda nid: counts_by_unit.get(_name_by_id(nid, id_by_name), 0))
SortByCount(a, ids) == StableSortBy(ids, [x \in Range(ids) |-> CountOfId(a, x)])

\* the orders counts_by_unit.sort_values(ascending=True).index.tolist() can
\* give: the sort is not stable, tied names come in any order
Orderings(S) ==
    {p \in [1..Cardinality(S) -> S] : \A i, j \in 1..Cardinality(S) : i # j => p[i] # p[j]}

AscendingOrders_Any(counts) == Orderings(DOMAIN counts)

AscendingOrders(counts) ==
    {p \in Orderings(DOMAIN counts) :
        \A i \in 1..(Len(p) - 1) : counts[p[i]] <= counts[p[i + 1]]}

NoId == 0

MergeStart ==
    [pc |-> "sort", units_sorted |-> << >>, k |-> 1,
     assigned |-> EmptyMap, regions |-> << >>,
     region_label |-> << >>, current |-> << >>, total |-> 0,
     frontier |-> << >>, visited |-> {},
     remaining |-> << >>, r |-> 1, out |-> << >>]

\* line 247
SortUnits(f, order) == [f EXCEPT !.pc = "for", !.units_sorted = order]

UnitName(f) == f.units_sorted[f.k]
UnitId(f, a) == ODGet(a.id_by_name, UnitName(f), NoId)

ForSkips_IdOnly(f, a) == UnitId(f, a) = NoId

\* lines 250-252: the unit has no id or is already assigned
ForSkips(f, a) == UnitId(f, a) = NoId \/ UnitId(f, a) \in DOMAIN f.assigned

ForContinue(f) == [f EXCEPT !.k = f.k + 1]

SeedRegion_AllUnits(f, a) ==
    LET unit_id == UnitId(f, a)
        label   == RegionLabel(UnitName(f))
    IN [f EXCEPT !.pc = "while",
                 !.region_label = label,
                 !.current = <<unit_id>>,
                 !.assigned = Put(f.assigned, unit_id, label),
                 !.total = Get(a.counts_by_unit, UnitName(f), 0),
                 !.frontier = SortByCount(a, ODValues(a.id_by_name)),
                 !.visited = {unit_id}]

\* lines 254-263: seed a region at the unit
SeedRegion(f, a) ==
    LET unit_id == UnitId(f, a)
        label   == RegionLabel(UnitName(f))
    IN [f EXCEPT !.pc = "while",
                 !.region_label = label,
                 !.current = <<unit_id>>,
                 !.assigned = Put(f.assigned, unit_id, label),
                 !.total = Get(a.counts_by_unit, UnitName(f), 0),
                 !.frontier = SortByCount(a, Get(a.adjacency, unit_id, << >>)),
                 !.visited = {unit_id}]

\* line 265
WhileCond_OffByOne(f, a) == f.total < a.min_tx_per_region - 1 /\ f.frontier # << >>

WhileCond_LessEq(f, a) == f.total <= a.min_tx_per_region /\ f.frontier # << >>

WhileCond(f, a) == f.total < a.min_tx_per_region /\ f.frontier # << >>

PopSkips_VisitedOnly(f) == Head(f.frontier) \in f.visited

\* line 267
PopSkips(f) == Head(f.frontier) \in f.visited \/ Head(f.frontier) \in DOMAIN f.assigned

PopSkip_Break(f) ==
    [f EXCEPT !.frontier = << >>,
              !.visited = f.visited \cup {Head(f.frontier)}]

\* lines 266-269
PopSkip(f) ==
    [f EXCEPT !.frontier = Tail(f.frontier),
              !.visited = f.visited \cup {Head(f.frontier)}]

PopAdd_NoExtend(f, a) ==
    LET nid == Head(f.frontier)
    IN [f EXCEPT !.visited = f.visited \cup {nid},
                 !.total = f.total + CountOfId(a, nid),
                 !.assigned = Put(f.assigned, nid, f.region_label),
                 !.current = Append(f.current, nid),
                 !.frontier = Tail(f.frontier)]

\* lines 266, 270-277
PopAdd(f, a) ==
    LET nid      == Head(f.frontier)
        visited  == f.visited \cup {nid}
        assigned == Put(f.assigned, nid, f.region_label)
        neighs   == SelectSeq(Get(a.adjacency, nid, << >>),
                              LAMBDA x : x \notin visited /\ x \notin DOMAIN assigned)
    IN [f EXCEPT !.visited = visited,
                 !.total = f.total + CountOfId(a, nid),
                 !.assigned = assigned,
                 !.current = Append(f.current, nid),
                 !.frontier = Tail(f.frontier)
                     \o SortByCount(a, neighs)]

\* line 279
SealRegion(f) ==
    [f EXCEPT !.pc = "for", !.k = f.k + 1,
              !.regions = ODPut(f.regions, f.region_label, f.current)]

Remaining_All(f, a) == ODValues(a.id_by_name)

\* line 281
Remaining(f, a) == SelectSeq(ODValues(a.id_by_name), LAMBDA uid : uid \notin DOMAIN f.assigned)

ForEnd(f, a) == [f EXCEPT !.pc = "remaining", !.remaining = Remaining(f, a), !.r = 1]

\* sum(counts_by_unit.get(_name_by_id(x, id_by_name), 0) for x in uids)
RegionTotal(a, uids) == SumSeq([i \in 1..Len(uids) |-> CountOfId(a, uids[i])])

BestRegion_First(f, a) == 1

\* lines 283-287: the first region of the smallest total (its position)
BestRegion(f, a) ==
    CHOOSE i \in 1..Len(f.regions) :
        /\ \A j \in 1..Len(f.regions) :
              RegionTotal(a, f.regions[i][2]) <= RegionTotal(a, f.regions[j][2])
        /\ \A j \in 1..(i - 1) :
              RegionTotal(a, f.regions[j][2]) > RegionTotal(a, f.regions[i][2])

StragglerNew_ById(f, a) ==
    LET uid    == f.remaining[f.r]
        rlabel == RegionLabel(StrOfInt(uid))
    IN [f EXCEPT !.regions = ODPut(f.regions, rlabel, <<uid>>),
                 !.assigned = Put(f.assigned, uid, rlabel),
                 !.r = f.r + 1]

\* lines 288-292
StragglerNew(f, a) ==
    LET uid    == f.remaining[f.r]
        rlabel == RegionLabel(NameById(uid, a.id_by_name))
    IN [f EXCEPT !.regions = ODPut(f.regions, rlabel, <<uid>>),
                 !.assigned = Put(f.assigned, uid, rlabel),
                 !.r = f.r + 1]

\* lines 293-295
StragglerAppend(f, a) ==
    LET uid  == f.remaining[f.r]
        best == BestRegion(f, a)
    IN [f EXCEPT !.regions[best] = <<f.regions[best][1], Append(f.regions[best][2], uid)>>,
                 !.assigned = Put(f.assigned, uid, f.regions[best][1]),
                 !.r = f.r + 1]

\* name_by_id = {v: k for k, v in id_by_name.items()}
RECURSIVE InvertDict(_, _)
InvertDict(d, acc) ==
    IF d = << >> THEN acc
    ELSE InvertDict(Tail(d), ODPut(acc, Head(d)[2], Head(d)[1]))

\* lines 299-303
RECURSIVE OutLoop(_, _, _)
OutLoop(pairs, name_by_id, out) ==
    IF pairs = << >> THEN out
    ELSE LET uname == ODGet(name_by_id, Head(pairs)[2], << >>)
         IN OutLoop(Tail(pairs), name_by_id,
                    IF uname # << >> THEN ODPut(out, uname, Head(pairs)[1]) ELSE out)

\* <<rlabel, uid>> for rlabel, uids in regions.items() for uid in uids
RECURSIVE RegionPairs(_)
RegionPairs(regions) ==
    IF regions = << >> THEN << >>
    ELSE [i \in 1..Len(Head(regions)[2]) |-> <<Head(regions)[1], Head(regions)[2][i]>>]
         \o RegionPairs(Tail(regions))

\* lines 297-304
BuildOut(f, a) ==
    [f EXCEPT !.pc = "return",
              !.out = OutLoop(RegionPairs(f.regions), InvertDict(a.id_by_name, << >>), << >>)]

\* one step of _balanced_merge after the sort
MergeStep(f, a) ==
    CASE f.pc = "for" /\ f.k <= Len(f.units_sorted) /\ ForSkips(f, a)  -> ForContinue(f)
      [] f.pc = "for" /\ f.k <= Len(f.units_sorted) /\ ~ForSkips(f, a) -> SeedRegion(f, a)
      [] f.pc = "for" /\ f.k > Len(f.units_sorted)                     -> ForEnd(f, a)
      [] f.pc = "while" /\ WhileCond(f, a) /\ PopSkips(f)              -> PopSkip(f)
      [] f.pc = "while" /\ WhileCond(f, a) /\ ~PopSkips(f)             -> PopAdd(f, a)
      [] f.pc = "while" /\ ~WhileCond(f, a)                            -> SealRegion(f)
      [] f.pc = "remaining" /\ f.r <= Len(f.remaining) /\ f.regions = << >>
                                                                       -> StragglerNew(f, a)
      [] f.pc = "remaining" /\ f.r <= Len(f.remaining) /\ f.regions # << >>
                                                                       -> StragglerAppend(f, a)
      [] f.pc = "remaining" /\ f.r > Len(f.remaining)                  -> BuildOut(f, a)

RECURSIVE MergeRun(_, _)
MergeRun(f, a) == IF f.pc = "return" THEN f ELSE MergeRun(MergeStep(f, a), a)

\* _balanced_merge(counts_by_unit, adjacency, id_by_name, min_tx_per_region)
\* when the sort gives `order`: the returned name -> region dict
BalancedMerge(a, order) == MergeRun(SortUnits(MergeStart, order), a).out

(* ------------------------------------------------------------------ *)
(* Geometry tables and _build_adjacency                                *)
(*   rows: the (unit_id, bairro_oficial) of each loaded unit, in order; *)
(*   the geometry column is kept as what shapely answers about a pair   *)
(*   of polygons: border = pairs sharing a boundary of positive length, *)
(*   point = pairs touching in isolated points only                     *)
(* ------------------------------------------------------------------ *)

EmptyGeo == [rows |-> << >>, border |-> {}, point |-> {}]

GeoEmpty(df_geo) == df_geo.rows = << >>

UnitIds(df_geo) == [i \in 1..Len(df_geo.rows) |-> df_geo.rows[i].unit_id]
UnitNames(df_geo) == [i \in 1..Len(df_geo.rows) |-> df_geo.rows[i].bairro_oficial]

\* a.touches(b) or a.buffer(0).boundary.intersects(b.buffer(0).boundary)
Touches(df_geo, aid, bid) == {aid, bid} \in df_geo.border \cup df_geo.point

\* a.boundary.intersection(b.boundary).length > 0.000001
SharedLength(df_geo, aid, bid) == {aid, bid} \in df_geo.border

Neighs_LaterOnly(df_geo, aid) ==
    SelectSeq(UnitIds(df_geo),
              LAMBDA bid : aid < bid /\ Touches(df_geo, aid, bid)
                                     /\ SharedLength(df_geo, aid, bid))

\* lines 178-191: the neighbours of aid
Neighs(df_geo, aid) ==
    SelectSeq(UnitIds(df_geo),
              LAMBDA bid : aid # bid /\ Touches(df_geo, aid, bid)
                                     /\ SharedLength(df_geo, aid, bid))

\* _build_adjacency
BuildAdjacency(df_geo) ==
    IF GeoEmpty(df_geo) THEN EmptyMap
    ELSE [aid \in Range(UnitIds(df_geo)) |-> Neighs(df_geo, aid)]

\* dict(zip(geo["bairro_oficial"], geo["unit_id"]))
IdByName(df_geo) == ODZip(UnitNames(df_geo), UnitIds(df_geo), << >>)

(* ------------------------------------------------------------------ *)
(* The geometry loaders, request by request                            *)
(*   a candidate file: [exists, kind, features]; kind is "unreadable"   *)
(*   (open or json.load raises), "list" (the JSON document is a list)   *)
(*   or "dict"; a feature: [kind, nome]                                 *)
(*   a response: [ok, body]; ok = no exception and the status accepted  *)
(*   a JSON body: [t, items, geometry]; t is "null" (any falsy value),  *)
(*   "num", "list", "dict"; geometry is "absent", "null", "valid" or    *)
(*   "invalid" (shape() raises)                                         *)
(* ------------------------------------------------------------------ *)

\* candidates (lines 77-81)
NumCandidates == 3

Feature(kind, nome) == [kind |-> kind, nome |-> nome]
NoSuchFile == [exists |-> FALSE, kind |-> "dict", features |-> << >>]
File(kind, features) == [exists |-> TRUE, kind |-> kind, features |-> features]

\* lines 92-94, 95-98, 99-102: the feature is skipped
FeatureSkipped(ft) == ft.kind \in {"nogeom", "noname", "badgeom"}

\* line 91: ft.get on a feature that is no object raises
FeatureRaises(ft) == ft.kind = "notdict"

\* lines 85-87: open, json.load or gj.get raises
OpenRaises(file) == file.kind \in {"unreadable", "list"}

Json(t, items, geometry) == [t |-> t, items |-> items, geometry |-> geometry]
JNull == Json("null", << >>, "absent")
Response(ok, body) == [ok |-> ok, body |-> body]
Failed == Response(FALSE, JNull)

\* bool(x) of a JSON value
Truthy(j) == j.t # "null"

\* _ibge_get_subdistritos: r.json(), or [] after any exception
IbgeGetSubdistritos(resp) == IF resp.ok THEN resp.body ELSE Json("list", << >>, "absent")

\* _try_fetch_geojson: r.json() on status 200, else None
TryFetchGeojson(resp) == IF resp.ok THEN resp.body ELSE JNull

IbgeGetSubdistritoGeojson_FirstOnly(tries) == TryFetchGeojson(Head(tries))

\* _ibge_get_subdistrito_geojson: the first truthy answer of the tries, or None
RECURSIVE IbgeGetSubdistritoGeojson(_)
IbgeGetSubdistritoGeojson(tries) ==
    IF tries = << >> THEN JNull
    ELSE IF Truthy(TryFetchGeojson(Head(tries))) THEN TryFetchGeojson(Head(tries))
    ELSE IbgeGetSubdistritoGeojson(Tail(tries))

\* line 149: for s in subs raises on a value that cannot be iterated
Iterable(j) == j.t \in {"list", "dict"}

\* lines 150-154: s["id"], s["nome"] raise (caught) unless s is an object with both
EntryUsable(s) == s.t = "dict" /\ s.id # NoId

\* line 158: gj.get raises on a truthy value that is no object
BodyRaises(gj) == gj.t # "dict"

\* line 158: gj.get("features") or ([gj] if "geometry" in gj else [])
FeaturesOf(gj) ==
    IF gj.items # << >> THEN gj.items
    ELSE IF gj.geometry # "absent" THEN <<gj>> ELSE << >>

\* line 159: features[0].get raises when the first feature is no object
FirstFeatureRaises(gj) == FeaturesOf(gj) # << >> /\ FeaturesOf(gj)[1].t # "dict"

\* line 159: not features or not features[0].get("geometry")
NoGeometry(gj) ==
    IF FeaturesOf(gj) = << >> THEN TRUE ELSE FeaturesOf(gj)[1].geometry \in {"absent", "null"}

\* lines 161-165: shape(...).buffer(0) raises
ShapeRaises(gj) == FeaturesOf(gj)[1].geometry = "invalid"

NoIo == [files |-> << >>, list_response |-> Failed, malha |-> EmptyMap]

LoadIdle == [fn |-> "none", pc |-> "idle", p |-> 1, j |-> 1, uid |-> 1,
             subs |-> << >>, s |-> 1, rows |-> << >>, ret |-> << >>]

(* ------------------------------------------------------------------ *)
(* The transaction table and the two region builders                   *)
(*   df: the rows of the input table, each the label in bairro_col      *)
(* ------------------------------------------------------------------ *)

\* df[col].value_counts(): label -> number of rows
ValueCounts(column) ==
    [b \in Range(column) |-> Cardinality({i \in 1..Len(column) : column[i] = b})]

\* sorted(pd.Series(df[bairro_col].dropna().unique()).astype(str).tolist())
DistinctSorted(df) == SortedStrings(Range(df))

\* tmp["unit_name"] = tmp[bairro_col].map(bairro_to_off); value_counts()
CountsByUnit(df, bairro_to_off) ==
    ValueCounts([i \in 1..Len(df) |-> bairro_to_off[df[i]]])

ToRegion_NoDefault(b, bairro_to_off, mapping) ==
    ODGet(mapping, Get(bairro_to_off, b, b), << >>)

\* lines 382-384, to_region
ToRegion(b, bairro_to_off, mapping) ==
    LET uname == Get(bairro_to_off, b, b)
    IN ODGet(mapping, uname, RegionLabel(uname))

\* lines 389-391: regions_dict.setdefault(region, []).append(uname)
RECURSIVE RegionsDict(_, _)
RegionsDict(mapping, acc) ==
    IF mapping = << >> THEN acc
    ELSE RegionsDict(Tail(mapping),
                     ODPut(acc, Head(mapping)[2],
                           Append(ODGet(acc, Head(mapping)[2], << >>), Head(mapping)[1])))

RECURSIVE RegionsOfLabels(_, _, _, _)
RegionsOfLabels(labels, bairro_to_off, mapping, acc) ==
    IF labels = << >> THEN acc
    ELSE LET reg == ToRegion(Head(labels), bairro_to_off, mapping)
         IN RegionsOfLabels(Tail(labels), bairro_to_off, mapping,
                            ODPut(acc, reg, Append(ODGet(acc, reg, << >>), Head(labels))))

SpatialResult_ByLabel(df, bairro_to_off, mapping, source) ==
    [df_out  |-> [i \in 1..Len(df) |->
                    [bairro |-> df[i], regiao |-> ToRegion(df[i], bairro_to_off, mapping)]],
     regions |-> RegionsOfLabels(DistinctSorted(df), bairro_to_off, mapping, << >>),
     source  |-> source]

SpatialResult_DistinctRows(df, bairro_to_off, mapping, source) ==
    [df_out  |-> [i \in 1..Len(DistinctSorted(df)) |->
                    [bairro |-> DistinctSorted(df)[i],
                     regiao |-> ToRegion(DistinctSorted(df)[i], bairro_to_off, mapping)]],
     regions |-> RegionsDict(mapping, << >>),
     source  |-> source]

\* lines 386-393: the value returned on a spatial path
SpatialResult(df, bairro_to_off, mapping, source) ==
    [df_out  |-> [i \in 1..Len(df) |->
                    [bairro |-> df[i], regiao |-> ToRegion(df[i], bairro_to_off, mapping)]],
     regions |-> RegionsDict(mapping, << >>),
     source  |-> source]

FallbackStart == [regions |-> << >>, current_region |-> << >>, current_total |-> 0]

FallbackStep_Strict(st, b, c, min_tx_per_region) ==
    LET cur == Append(st.current_region, b)
        tot == st.current_total + c
    IN IF tot > min_tx_per_region
       THEN [regions |-> ODPut(st.regions, RegionLabel(cur[1]), cur),
             current_region |-> << >>, current_total |-> 0]
       ELSE [st EXCEPT !.current_region = cur, !.current_total = tot]

FallbackStep_Always(st, b, c, min_tx_per_region) ==
    [regions |-> ODPut(st.regions, RegionLabel(b), <<b>>),
     current_region |-> << >>, current_total |-> 0]

\* lines 322-327: one block of the loop of _balanced_regions_without_geo
FallbackStep(st, b, c, min_tx_per_region) ==
    LET cur == Append(st.current_region, b)
        tot == st.current_total + c
    IN IF tot >= min_tx_per_region
       THEN [regions |-> ODPut(st.regions, RegionLabel(cur[1]), cur),
             current_region |-> << >>, current_total |-> 0]
       ELSE [st EXCEPT !.current_region = cur, !.current_total = tot]

\* lines 321-331
RECURSIVE FallbackLoop(_, _, _, _)
FallbackLoop(bairros_sorted, counts, min_tx_per_region, st) ==
    IF bairros_sorted = << >>
    THEN IF st.current_region # << >>
         THEN ODPut(st.regions, RegionLabel(st.current_region[1]), st.current_region)
         ELSE st.regions
    ELSE FallbackLoop(Tail(bairros_sorted), counts, min_tx_per_region,
                      FallbackStep(st, Head(bairros_sorted), counts[Head(bairros_sorted)],
                                   min_tx_per_region))

\* lines 333-336
RECURSIVE BairroToRegion(_, _)
BairroToRegion(pairs, acc) ==
    IF pairs = << >> THEN acc
    ELSE BairroToRegion(Tail(pairs), Put(acc, Head(pairs)[2], Head(pairs)[1]))

\* _balanced_regions_without_geo(df, bairro_col, min_tx_per_region) when the
\* sort gives bairros_sorted
BalancedRegionsWithoutGeo(df, min_tx_per_region, bairros_sorted) ==
    LET regions == FallbackLoop(bairros_sorted, ValueCounts(df), min_tx_per_region,
                                FallbackStart)
        bairro_to_region == BairroToRegion(RegionPairs(regions), EmptyMap)
    IN [df_out  |-> [i \in 1..Len(df) |->
                       [bairro |-> df[i],
                        regiao |-> Get(bairro_to_region, df[i], RegionLabel(df[i]))]],
        regions |-> regions,
        source  |-> "fallback"]

\* _load_bairros_recife_geometries() / _load_subdistritos_geometries(): the
\* table the local file, or the remote service, yields
LoadBairrosRecifeGeometries(e) == e.local_geo
LoadSubdistritosGeometries(e) == e.remote_geo

DfEmpty_Never(df) == FALSE

\* line 361
DfEmpty(df) == df = << >>

BairrosAvailable_Inverted(b) == GeoEmpty(b.bairros_geo)

\* line 368
BairrosAvailable(b) == ~GeoEmpty(b.bairros_geo)

\* line 397
SubsAvailable(b) == ~GeoEmpty(b.subs_geo)

\* lines 368-393 and 397-422 for the table geo: the values a spatial path
\* can return, one for each order the sort of _balanced_merge can give
SpatialResults(df, min_tx_per_region, geo, source, csv) ==
    LET bairro_to_off == MapBairroToOfficial(DistinctSorted(df), UnitNames(geo), csv)
        a == [counts_by_unit |-> CountsByUnit(df, bairro_to_off),
              adjacency |-> BuildAdjacency(geo),
              id_by_name |-> IdByName(geo),
              min_tx_per_region |-> min_tx_per_region]
    IN {SpatialResult(df, bairro_to_off, BalancedMerge(a, order), source) :
           order \in AscendingOrders(a.counts_by_unit)}

\* build_regions_for_recife(df, bairro_col, min_tx_per_region) in the
\* environment e: the values the call can return
BuildRegionsForRecife(df, min_tx_per_region, e) ==
    IF DfEmpty(df)
    THEN {[df_out |-> << >>, regions |-> << >>, source |-> "fallback"]}
    ELSE IF ~GeoEmpty(LoadBairrosRecifeGeometries(e))
    THEN SpatialResults(df, min_tx_per_region, LoadBairrosRecifeGeometries(e), "bairros",
                        e.manual_csv)
    ELSE IF ~GeoEmpty(LoadSubdistritosGeometries(e))
    THEN SpatialResults(df, min_tx_per_region, LoadSubdistritosGeometries(e), "ibge",
                        e.manual_csv)
    ELSE {BalancedRegionsWithoutGeo(df, min_tx_per_region, order) :
             order \in AscendingOrders(ValueCounts(df))}

(* ------------------------------------------------------------------ *)
(* Bounds and input sets                                               *)
(* ------------------------------------------------------------------ *)

MaxCount == 2
MaxMinTx == 3
MaxLabels == 2
MaxRows == 3

Unit(id, name) == [unit_id |-> id, bairro_oficial |-> name]

\* four distinct names; three names of which two differ in case only; three
\* features of which two carry the same name
RowsFour  == <<Unit(1, S_Pina), Unit(2, S_Derby), Unit(3, S_Torre), Unit(4, S_Gracas)>>
RowsCase  == <<Unit(1, S_Derby), Unit(2, S_DERBY), Unit(3, S_Pina)>>
RowsTwice == <<Unit(1, S_Pina), Unit(2, S_Derby), Unit(3, S_Pina)>>

\* the pairs of units that may share a border, and those meeting in a corner
BordersFour  == {{1, 2}, {2, 3}, {2, 4}, {3, 4}}
BordersThree == {{1, 2}, {2, 3}, {1, 3}}
Corners      == {{1, 4}}

GeoTablesOf(rows, borders) ==
    {[rows |-> rows, border |-> b, point |-> Corners] : b \in SUBSET borders}

MergeGeoTables ==
    GeoTablesOf(RowsFour, BordersFour) \cup GeoTablesOf(RowsCase, BordersThree)
        \cup GeoTablesOf(RowsTwice, BordersThree)

\* value_counts() of a column: the labels that occur, each with its count >= 1
CountsOver(names) ==
    {[n \in {m \in names : c[m] > 0} |-> c[n]] : c \in [names -> 0..MaxCount]}

\* the names counted in a call on a table: its unit names, and for the tables
\* of three units a label that matched no unit
CountedNames(df_geo) ==
    Range(UnitNames(df_geo)) \cup (IF Len(df_geo.rows) < 4 THEN {S_Centro} ELSE {})

\* the arguments of a call on a table with the counts given
MergeArgsOf(df_geo, counts, min_tx_per_region) ==
    [counts_by_unit |-> counts, adjacency |-> BuildAdjacency(df_geo),
     id_by_name |-> IdByName(df_geo), min_tx_per_region |-> min_tx_per_region]

\* units A(50), B(80), C(300) in a chain A-B-C, threshold 200
ChainGeo ==
    [rows |-> <<Unit(1, S_A), Unit(2, S_B), Unit(3, S_C)>>,
     border |-> {{1, 2}, {2, 3}}, point |-> {}]
ChainArgs == MergeArgsOf(ChainGeo, (S_A :> 50) @@ (S_B :> 80) @@ (S_C :> 300), 200)

\* one unit A(10) without neighbour, threshold 200
LoneGeo == [rows |-> <<Unit(1, S_A)>>, border |-> {}, point |-> {}]
LoneArgs == MergeArgsOf(LoneGeo, (S_A :> 10), 200)

(* ------------------------------------------------------------------ *)
(* State                                                               *)
(* ------------------------------------------------------------------ *)

VARIABLES
    io,     \* what the candidate files hold and what the remote requests answer
    ld,     \* the local variables of the running geometry loader
    env,    \* the files and the remote service a call finds
    calls,  \* the geometry loaders invoked so far, in order
    br,     \* the local variables of the running build_regions_for_recife call
    mp,     \* the local variables of the running _map_bairro_to_official call
    args,   \* the arguments of the running _balanced_merge call
    bm      \* its local variables

vars == <<io, ld, env, calls, br, mp, args, bm>>

NoEnv == [manual_csv |-> NoFile, local_geo |-> EmptyGeo, remote_geo |-> EmptyGeo]

NoArgs == [counts_by_unit |-> EmptyMap, adjacency |-> EmptyMap, id_by_name |-> << >>,
           min_tx_per_region |-> 0]

MapIdle == [pc |-> "idle", bairros |-> << >>, official_names |-> << >>,
            manual |-> [isNone |-> TRUE, d |-> EmptyMap], i |-> 1, mapping |-> EmptyMap]

MergeIdle == [MergeStart EXCEPT !.pc = "idle"]

NoResult == [df_out |-> << >>, regions |-> << >>, source |-> "none"]

BuildIdle == [pc |-> "idle", df |-> << >>, bairro_col |-> "bairro", min_tx_per_region |-> 0,
              bairros_geo |-> EmptyGeo, subs_geo |-> EmptyGeo,
              bairro_to_off |-> EmptyMap, mapping |-> << >>, result |-> NoResult]

(* ------------------------------------------------------------------ *)
(* _balanced_merge step by step                                        *)
(* ------------------------------------------------------------------ *)

InitMerge ==
    /\ \/ \E g \in MergeGeoTables : \E c \in CountsOver(CountedNames(g)) :
             \E m \in 1..MaxMinTx : args = MergeArgsOf(g, c, m)
       \/ args \in {ChainArgs, LoneArgs}
    /\ bm = MergeStart
    /\ env = NoEnv /\ calls = << >> /\ br = BuildIdle /\ mp = MapIdle
    /\ io = NoIo /\ ld = LoadIdle

MSort ==
    /\ bm.pc = "sort"
    /\ \E order \in AscendingOrders(args.counts_by_unit) : bm' = SortUnits(bm, order)
    /\ UNCHANGED <<io, ld, env, calls, br, mp, args>>

MForSkip ==
    /\ bm.pc = "for" /\ bm.k <= Len(bm.units_sorted) /\ ForSkips(bm, args)
    /\ bm' = ForContinue(bm)
    /\ UNCHANGED <<io, ld, env, calls, br, mp, args>>

MSeed ==
    /\ bm.pc = "for" /\ bm.k <= Len(bm.units_sorted) /\ ~ForSkips(bm, args)
    /\ bm' = SeedRegion(bm, args)
    /\ UNCHANGED <<io, ld, env, calls, br, mp, args>>

MPopSkip ==
    /\ bm.pc = "while" /\ WhileCond(bm, args) /\ PopSkips(bm)
    /\ bm' = PopSkip(bm)
    /\ UNCHANGED <<io, ld, env, calls, br, mp, args>>

MPopAdd ==
    /\ bm.pc = "while" /\ WhileCond(bm, args) /\ ~PopSkips(bm)
    /\ bm' = PopAdd(bm, args)
    /\ UNCHANGED <<io, ld, env, calls, br, mp, args>>

MSeal ==
    /\ bm.pc = "while" /\ ~WhileCond(bm, args)
    /\ bm' = SealRegion(bm)
    /\ UNCHANGED <<io, ld, env, calls, br, mp, args>>

MForEnd ==
    /\ bm.pc = "for" /\ bm.k > Len(bm.units_sorted)
    /\ bm' = ForEnd(bm, args)
    /\ UNCHANGED <<io, ld, env, calls, br, mp, args>>

MStragglerNew ==
    /\ bm.pc = "remaining" /\ bm.r <= Len(bm.remaining) /\ bm.regions = << >>
    /\ bm' = StragglerNew(bm, args)
    /\ UNCHANGED <<io, ld, env, calls, br, mp, args>>

MStragglerAppend ==
    /\ bm.pc = "remaining" /\ bm.r <= Len(bm.remaining) /\ bm.regions # << >>
    /\ bm' = StragglerAppend(bm, args)
    /\ UNCHANGED <<io, ld, env, calls, br, mp, args>>

MBuildOut ==
    /\ bm.pc = "remaining" /\ bm.r > Len(bm.remaining)
    /\ bm' = BuildOut(bm, args)
    /\ UNCHANGED <<io, ld, env, calls, br, mp, args>>

NextMerge ==
    \/ MSort \/ MForSkip \/ MSeed \/ MPopSkip \/ MPopAdd \/ MSeal
    \/ MForEnd \/ MStragglerNew \/ MStragglerAppend \/ MBuildOut

SpecMerge == InitMerge /\ [][NextMerge]_vars

(* ------------------------------------------------------------------ *)
(* _map_bairro_to_official step by step                                *)
(* ------------------------------------------------------------------ *)

\* raw labels of the transaction table
RawPool == {S_gracas, S_Gracs, S_Torre, S_Derby, S_BoaViagen, S_Centro}

\* official names of a geometry table
OfficialLists ==
    { <<S_Gracas, S_Derby, S_Torreao, S_BoaViagem>>,
      <<S_GRACAS, S_Gracas, S_Pina>>,
      <<S_Torreao, S_Torre, S_DERBY>> }

\* data/bairro_to_bairrooficial.csv: missing, without rows, or with rows
ManualCsvs ==
    { NoFile,
      [exists |-> TRUE, rows |-> << >>],
      [exists |-> TRUE, rows |-> << <<S_DERBY, S_Gracas>>, <<S_Torre, S_Centro>> >>] }

InitMap ==
    /\ \E csv \in ManualCsvs : env = [NoEnv EXCEPT !.manual_csv = csv]
    /\ \E labels \in SUBSET RawPool : \E off \in OfficialLists :
          /\ Cardinality(labels) <= MaxLabels
          /\ mp = [MapIdle EXCEPT !.pc = "load", !.bairros = SortedStrings(labels),
                                  !.official_names = off]
    /\ calls = << >> /\ br = BuildIdle /\ args = NoArgs /\ bm = MergeIdle
    /\ io = NoIo /\ ld = LoadIdle

\* lines 196-198
PLoadManual ==
    /\ mp.pc = "load"
    /\ mp' = [mp EXCEPT !.pc = "loop", !.manual = LoadManualBairroMapping(env.manual_csv)]
    /\ UNCHANGED <<io, ld, env, calls, br, args, bm>>

PInLoop == mp.pc = "loop" /\ mp.i <= Len(mp.bairros)

\* lines 210-228, one label
PMapNext ==
    mp' = [mp EXCEPT !.i = mp.i + 1,
                     !.mapping = Put(mp.mapping, mp.bairros[mp.i],
                                     MapOne(mp.bairros[mp.i], mp.official_names, mp.manual))]

\* lines 212-214
PMapManual ==
    /\ PInLoop /\ ManualHit(mp.bairros[mp.i], mp.manual)
    /\ PMapNext
    /\ UNCHANGED <<io, ld, env, calls, br, args, bm>>

\* lines 218-220
PMapExact ==
    /\ PInLoop /\ ~ManualHit(mp.bairros[mp.i], mp.manual)
    /\ ExactHit(mp.bairros[mp.i], mp.official_names)
    /\ PMapNext
    /\ UNCHANGED <<io, ld, env, calls, br, args, bm>>

\* lines 222-224
PMapFuzzy ==
    /\ PInLoop /\ ~ManualHit(mp.bairros[mp.i], mp.manual)
    /\ ~ExactHit(mp.bairros[mp.i], mp.official_names)
    /\ FuzzyMatch(mp.bairros[mp.i], mp.official_names) # << >>
    /\ PMapNext
    /\ UNCHANGED <<io, ld, env, calls, br, args, bm>>

\* lines 225-227
PMapIdentity ==
    /\ PInLoop /\ ~ManualHit(mp.bairros[mp.i], mp.manual)
    /\ ~ExactHit(mp.bairros[mp.i], mp.official_names)
    /\ FuzzyMatch(mp.bairros[mp.i], mp.official_names) = << >>
    /\ PMapNext
    /\ UNCHANGED <<io, ld, env, calls, br, args, bm>>

\* line 228
PReturn ==
    /\ mp.pc = "loop" /\ mp.i > Len(mp.bairros)
    /\ mp' = [mp EXCEPT !.pc = "return"]
    /\ UNCHANGED <<io, ld, env, calls, br, args, bm>>

NextMap == PLoadManual \/ PMapManual \/ PMapExact \/ PMapFuzzy \/ PMapIdentity \/ PReturn

SpecMap == InitMap /\ [][NextMap]_vars

(* ------------------------------------------------------------------ *)
(* _load_bairros_recife_geometries and _load_subdistritos_geometries   *)
(* step by step                                                        *)
(* ------------------------------------------------------------------ *)

FeatureLists ==
    { << >>,
      <<Feature("ok", S_Pina)>>,
      <<Feature("nogeom", S_Pina), Feature("ok", S_Derby)>>,
      <<Feature("ok", S_Pina), Feature("notdict", << >>)>>,
      <<Feature("noname", << >>), Feature("badgeom", S_Torre)>> }

CandidateFiles ==
    {NoSuchFile, File("unreadable", << >>), File("list", << >>)}
        \cup {File("dict", fs) : fs \in FeatureLists}

Entry(t, id, nome) == [t |-> t, id |-> id, nome |-> nome]

\* the bodies the list of subdistricts can come with
ListBodies ==
    { Json("list", << >>, "absent"),
      Json("list", <<Entry("dict", 7, S_Torreao)>>, "absent"),
      Json("list", <<Entry("dict", NoId, S_Pina), Entry("dict", 8, S_Gracas)>>, "absent"),
      Json("list", <<Entry("num", NoId, << >>), Entry("dict", 7, S_Torreao),
                     Entry("dict", 8, S_Gracas)>>, "absent"),
      Json("dict", <<Entry("str", NoId, << >>)>>, "absent"),
      Json("num", << >>, "absent"),
      JNull }

JFeature(t, geometry) == Json(t, << >>, geometry)

\* the bodies a mesh request can come with
MalhaBodies ==
    { JNull,
      Json("dict", <<JFeature("dict", "valid")>>, "absent"),
      Json("dict", <<JFeature("dict", "invalid")>>, "absent"),
      Json("dict", <<JFeature("dict", "null")>>, "absent"),
      Json("dict", <<JFeature("str", "absent")>>, "absent"),
      Json("dict", << >>, "valid"),
      Json("dict", << >>, "absent"),
      Json("list", <<JFeature("dict", "valid")>>, "absent") }

\* the answers to the four requests of one subdistrict
MalhaTries ==
    {<<Failed, Failed, Failed, Failed>>}
        \cup {<<Response(TRUE, b), Failed, Failed, Failed>> : b \in MalhaBodies}
        \cup {<<Failed, Response(TRUE, JNull), Response(TRUE, b), Failed>> : b \in MalhaBodies}

InitLoad ==
    /\ \/ /\ \E files \in [1..NumCandidates -> CandidateFiles] :
                io = [NoIo EXCEPT !.files = files]
          /\ ld = [LoadIdle EXCEPT !.fn = "bairros", !.pc = "candidates"]
       \/ /\ \E resp \in {Failed} \cup {Response(TRUE, b) : b \in ListBodies} :
             \E m \in [{7, 8} -> MalhaTries] :
                io = [NoIo EXCEPT !.list_response = resp, !.malha = m]
          /\ ld = [LoadIdle EXCEPT !.fn = "subs", !.pc = "list"]
    /\ env = NoEnv /\ calls = << >> /\ br = BuildIdle /\ mp = MapIdle
    /\ args = NoArgs /\ bm = MergeIdle

InCandidates == ld.fn = "bairros" /\ ld.pc = "candidates" /\ ld.p <= NumCandidates
InFeatures == ld.fn = "bairros" /\ ld.pc = "features"

\* line 83: the candidate does not exist
LMissing ==
    /\ InCandidates /\ ~io.files[ld.p].exists
    /\ ld' = [ld EXCEPT !.p = ld.p + 1]
    /\ UNCHANGED <<io, env, calls, br, mp, args, bm>>

\* lines 84-87, 107-108: reading the candidate raises, the next one is tried
LOpenRaises ==
    /\ InCandidates /\ io.files[ld.p].exists /\ OpenRaises(io.files[ld.p])
    /\ ld' = [ld EXCEPT !.p = ld.p + 1]
    /\ UNCHANGED <<io, env, calls, br, mp, args, bm>>

\* lines 84-89
LOpen ==
    /\ InCandidates /\ io.files[ld.p].exists /\ ~OpenRaises(io.files[ld.p])
    /\ ld' = [ld EXCEPT !.pc = "features", !.j = 1, !.uid = 1, !.rows = << >>]
    /\ UNCHANGED <<io, env, calls, br, mp, args, bm>>

\* lines 90-102: a feature without geometry, without name or of invalid shape
LFeatureSkip ==
    /\ InFeatures /\ ld.j <= Len(io.files[ld.p].features)
    /\ FeatureSkipped(io.files[ld.p].features[ld.j])
    /\ ld' = [ld EXCEPT !.j = ld.j + 1]
    /\ UNCHANGED <<io, env, calls, br, mp, args, bm>>

\* lines 91, 107-108: the feature raises, the candidate is given up
LFeatureRaises ==
    /\ InFeatures /\ ld.j <= Len(io.files[ld.p].features)
    /\ FeatureRaises(io.files[ld.p].features[ld.j])
    /\ ld' = [ld EXCEPT !.pc = "candidates", !.p = ld.p + 1]
    /\ UNCHANGED <<io, env, calls, br, mp, args, bm>>

\* lines 103-104
LFeatureAppend ==
    /\ InFeatures /\ ld.j <= Len(io.files[ld.p].features)
    /\ ~FeatureSkipped(io.files[ld.p].features[ld.j])
    /\ ~FeatureRaises(io.files[ld.p].features[ld.j])
    /\ ld' = [ld EXCEPT !.rows = Append(ld.rows, Unit(ld.uid, io.files[ld.p].features[ld.j].nome)),
                        !.uid = ld.uid + 1, !.j = ld.j + 1]
    /\ UNCHANGED <<io, env, calls, br, mp, args, bm>>

\* lines 105-107: the candidate gave rows
LReturnRows ==
    /\ InFeatures /\ ld.j > Len(io.files[ld.p].features) /\ ld.rows # << >>
    /\ ld' = [ld EXCEPT !.pc = "return", !.ret = ld.rows]
    /\ UNCHANGED <<io, env, calls, br, mp, args, bm>>

\* lines 105-106: the candidate gave no row
LNoRows ==
    /\ InFeatures /\ ld.j > Len(io.files[ld.p].features) /\ ld.rows = << >>
    /\ ld' = [ld EXCEPT !.pc = "candidates", !.p = ld.p + 1]
    /\ UNCHANGED <<io, env, calls, br, mp, args, bm>>

\* line 110
LReturnEmpty ==
    /\ ld.fn = "bairros" /\ ld.pc = "candidates" /\ ld.p > NumCandidates
    /\ ld' = [ld EXCEPT !.pc = "return", !.ret = << >>]
    /\ UNCHANGED <<io, env, calls, br, mp, args, bm>>

\* line 147
RList ==
    /\ ld.fn = "subs" /\ ld.pc = "list"
    /\ ld' = [ld EXCEPT !.pc = "for", !.subs = IbgeGetSubdistritos(io.list_response),
                        !.s = 1, !.rows = << >>]
    /\ UNCHANGED <<io, env, calls, br, mp, args, bm>>

\* line 149: the value is not iterable, the TypeError leaves the function
RListRaises ==
    /\ ld.fn = "subs" /\ ld.pc = "for" /\ ~Iterable(ld.subs)
    /\ ld' = [ld EXCEPT !.pc = "raised"]
    /\ UNCHANGED <<io, env, calls, br, mp, args, bm>>

InEntries == ld.fn = "subs" /\ ld.pc = "for" /\ Iterable(ld.subs) /\ ld.s <= Len(ld.subs.items)

\* the entry at hand and the answer of _ibge_get_subdistrito_geojson for it
Sub == ld.subs.items[ld.s]
SubGeojson == IbgeGetSubdistritoGeojson(io.malha[Sub.id])

\* lines 150-154
REntrySkip ==
    /\ InEntries /\ ~EntryUsable(Sub)
    /\ ld' = [ld EXCEPT !.s = ld.s + 1]
    /\ UNCHANGED <<io, env, calls, br, mp, args, bm>>

\* lines 155-157
RNoGeojson ==
    /\ InEntries /\ EntryUsable(Sub) /\ ~Truthy(SubGeojson)
    /\ ld' = [ld EXCEPT !.s = ld.s + 1]
    /\ UNCHANGED <<io, env, calls, br, mp, args, bm>>

\* line 158: the AttributeError leaves the function
RBodyRaises ==
    /\ InEntries /\ EntryUsable(Sub) /\ Truthy(SubGeojson) /\ BodyRaises(SubGeojson)
    /\ ld' = [ld EXCEPT !.pc = "raised"]
    /\ UNCHANGED <<io, env, calls, br, mp, args, bm>>

\* line 159: the AttributeError leaves the function
RFeatureRaises ==
    /\ InEntries /\ EntryUsable(Sub) /\ Truthy(SubGeojson) /\ ~BodyRaises(SubGeojson)
    /\ FirstFeatureRaises(SubGeojson)
    /\ ld' = [ld EXCEPT !.pc = "raised"]
    /\ UNCHANGED <<io, env, calls, br, mp, args, bm>>

\* lines 159-160
RNoGeometry ==
    /\ InEntries /\ EntryUsable(Sub) /\ Truthy(SubGeojson) /\ ~BodyRaises(SubGeojson)
    /\ ~FirstFeatureRaises(SubGeojson) /\ NoGeometry(SubGeojson)
    /\ ld' = [ld EXCEPT !.s = ld.s + 1]
    /\ UNCHANGED <<io, env, calls, br, mp, args, bm>>

\* lines 161-165: shape raises, the entry is skipped
RShapeRaises ==
    /\ InEntries /\ EntryUsable(Sub) /\ Truthy(SubGeojson) /\ ~BodyRaises(SubGeojson)
    /\ ~FirstFeatureRaises(SubGeojson) /\ ~NoGeometry(SubGeojson) /\ ShapeRaises(SubGeojson)
    /\ ld' = [ld EXCEPT !.s = ld.s + 1]
    /\ UNCHANGED <<io, env, calls, br, mp, args, bm>>

\* lines 161-163
RAppend ==
    /\ InEntries /\ EntryUsable(Sub) /\ Truthy(SubGeojson) /\ ~BodyRaises(SubGeojson)
    /\ ~FirstFeatureRaises(SubGeojson) /\ ~NoGeometry(SubGeojson) /\ ~ShapeRaises(SubGeojson)
    /\ ld' = [ld EXCEPT !.rows = Append(ld.rows, Unit(Sub.id, Sub.nome)), !.s = ld.s + 1]
    /\ UNCHANGED <<io, env, calls, br, mp, args, bm>>

\* line 166
RReturn ==
    /\ ld.fn = "subs" /\ ld.pc = "for" /\ Iterable(ld.subs) /\ ld.s > Len(ld.subs.items)
    /\ ld' = [ld EXCEPT !.pc = "return", !.ret = ld.rows]
    /\ UNCHANGED <<io, env, calls, br, mp, args, bm>>

NextLoad ==
    \/ LMissing \/ LOpenRaises \/ LOpen \/ LFeatureSkip \/ LFeatureRaises \/ LFeatureAppend
    \/ LReturnRows \/ LNoRows \/ LReturnEmpty
    \/ RList \/ RListRaises \/ REntrySkip \/ RNoGeojson \/ RBodyRaises \/ RFeatureRaises
    \/ RNoGeometry \/ RShapeRaises \/ RAppend \/ RReturn

SpecLoad == InitLoad /\ [][NextLoad]_vars

(* ------------------------------------------------------------------ *)
(* build_regions_for_recife                                            *)
(* ------------------------------------------------------------------ *)

\* labels of the rows of the input table
DfLabels == {S_Gracs, S_Torre, S_Derby, S_DERBY}

Dfs == UNION {[1..n -> DfLabels] : n \in 0..MaxRows}

\* n rows of the label
Rows(label, n) == [i \in 1..n |-> label]

\* a table of 10 rows of X, 15 of Y and 300 of Z
XyzDf == Rows(S_X, 10) \o Rows(S_Y, 15) \o Rows(S_Z, 300)

\* what the local file holds
LocalGeos ==
    { EmptyGeo,
      [rows |-> <<Unit(1, S_Gracas), Unit(2, S_Derby), Unit(3, S_Torreao)>>,
       border |-> {{1, 2}, {2, 3}}, point |-> {{1, 3}}],
      [rows |-> <<Unit(1, S_Derby), Unit(2, S_DERBY), Unit(3, S_Pina)>>,
       border |-> {{1, 3}}, point |-> {}] }

\* what the remote service yields
RemoteGeos ==
    { EmptyGeo,
      [rows |-> <<Unit(7, S_Torreao), Unit(8, S_Gracas)>>, border |-> {{7, 8}}, point |-> {}] }

BuildCsvs == {NoFile, [exists |-> TRUE, rows |-> << <<S_Torre, S_DERBY>> >>]}

Init ==
    /\ \E csv \in BuildCsvs : \E lg \in LocalGeos : \E rg \in RemoteGeos :
          env = [manual_csv |-> csv, local_geo |-> lg, remote_geo |-> rg]
    /\ \/ \E df \in Dfs : \E m \in 1..MaxMinTx :
             br = [BuildIdle EXCEPT !.pc = "start", !.df = df, !.min_tx_per_region = m]
       \/ br = [BuildIdle EXCEPT !.pc = "start", !.df = XyzDf, !.min_tx_per_region = 20]
    /\ calls = << >> /\ mp = MapIdle /\ args = NoArgs /\ bm = MergeIdle
    /\ io = NoIo /\ ld = LoadIdle

\* lines 361-364
BEmptyReturn ==
    /\ br.pc = "start" /\ DfEmpty(br.df)
    /\ br' = [br EXCEPT !.pc = "done",
                        !.result = [df_out |-> << >>, regions |-> << >>, source |-> "fallback"]]
    /\ UNCHANGED <<io, ld, env, calls, mp, args, bm>>

\* line 367
BLoadBairros ==
    /\ br.pc = "start" /\ ~DfEmpty(br.df)
    /\ br' = [br EXCEPT !.pc = "bairros_loaded",
                        !.bairros_geo = LoadBairrosRecifeGeometries(env)]
    /\ calls' = Append(calls, "bairros")
    /\ UNCHANGED <<io, ld, env, mp, args, bm>>

\* the _map_bairro_to_official call of a spatial path, as a whole
MapCall(geo) ==
    LET bairros == DistinctSorted(br.df)
    IN mp' = [pc |-> "return", bairros |-> bairros,
              official_names |-> UnitNames(geo),
              manual |-> LoadManualBairroMapping(env.manual_csv),
              i |-> Len(bairros) + 1,
              mapping |-> MapBairroToOfficial(bairros, UnitNames(geo), env.manual_csv)]

\* lines 368-371
BMapBairros ==
    /\ br.pc = "bairros_loaded" /\ BairrosAvailable(br)
    /\ MapCall(br.bairros_geo)
    /\ br' = [br EXCEPT !.pc = "bairros_mapped", !.bairro_to_off = mp'.mapping]
    /\ UNCHANGED <<io, ld, env, calls, args, bm>>

\* line 396
BLoadSubs ==
    /\ br.pc = "bairros_loaded" /\ ~BairrosAvailable(br)
    /\ br' = [br EXCEPT !.pc = "subs_loaded",
                        !.subs_geo = LoadSubdistritosGeometries(env)]
    /\ calls' = Append(calls, "ibge")
    /\ UNCHANGED <<io, ld, env, mp, args, bm>>

\* lines 397-400
BMapSubs ==
    /\ br.pc = "subs_loaded" /\ SubsAvailable(br)
    /\ MapCall(br.subs_geo)
    /\ br' = [br EXCEPT !.pc = "ibge_mapped", !.bairro_to_off = mp'.mapping]
    /\ UNCHANGED <<io, ld, env, calls, args, bm>>

\* the table of the path taken
GeoInUse == IF br.pc \in {"bairros_mapped", "bairros_merged"} THEN br.bairros_geo ELSE br.subs_geo

\* lines 373-380 and 402-409: the _balanced_merge call, as a whole
BMerge ==
    /\ br.pc \in {"bairros_mapped", "ibge_mapped"}
    /\ args' = [counts_by_unit |-> CountsByUnit(br.df, br.bairro_to_off),
                adjacency |-> BuildAdjacency(GeoInUse),
                id_by_name |-> IdByName(GeoInUse),
                min_tx_per_region |-> br.min_tx_per_region]
    /\ \E order \in AscendingOrders(args'.counts_by_unit) :
          bm' = MergeRun(SortUnits(MergeStart, order), args')
    /\ br' = [br EXCEPT !.pc = IF br.pc = "bairros_mapped" THEN "bairros_merged"
                                                          ELSE "ibge_merged",
                        !.mapping = bm'.out]
    /\ UNCHANGED <<io, ld, env, calls, mp>>

\* lines 382-393 and 411-422
BReturnSpatial ==
    /\ br.pc \in {"bairros_merged", "ibge_merged"}
    /\ br' = [br EXCEPT !.pc = "done",
                        !.result = SpatialResult(br.df, br.bairro_to_off, br.mapping,
                                       IF br.pc = "bairros_merged" THEN "bairros" ELSE "ibge")]
    /\ UNCHANGED <<io, ld, env, calls, mp, args, bm>>

\* line 425
BFallback ==
    /\ br.pc = "subs_loaded" /\ ~SubsAvailable(br)
    /\ \E order \in AscendingOrders(ValueCounts(br.df)) :
          br' = [br EXCEPT !.pc = "done",
                           !.result = BalancedRegionsWithoutGeo(br.df, br.min_tx_per_region,
                                                                order)]
    /\ UNCHANGED <<io, ld, env, calls, mp, args, bm>>

Next ==
    \/ BEmptyReturn \/ BLoadBairros \/ BMapBairros \/ BLoadSubs \/ BMapSubs
    \/ BMerge \/ BReturnSpatial \/ BFallback

Spec == Init /\ [][Next]_vars

(* ------------------------------------------------------------------ *)
(* _balanced_merge on any arguments, run to its end                    *)
(* ------------------------------------------------------------------ *)

\* adjacency maps as a caller can pass them: empty lists; a cycle with
\* repeated entries and self-loops; edges in one direction only; a unit
\* without key
AnyAdjacencies ==
    { [u \in 1..3 |-> << >>],
      (1 :> <<2, 3, 2>>) @@ (2 :> <<2, 3, 1>>) @@ (3 :> <<3, 1, 1>>),
      (1 :> <<2, 2>>) @@ (2 :> << >>) @@ (3 :> <<1>>),
      (1 :> <<3, 3, 1>>) @@ (3 :> <<2>>) }

\* thresholds: negative, zero and positive
AnyMinTx == {-1, 0, 1, MaxMinTx}

AnyNames == <<S_A, S_B, S_C>>

InitMergeAny ==
    /\ \E adj \in AnyAdjacencies : \E c \in CountsOver(Range(AnyNames)) :
       \E m \in AnyMinTx :
          args = [counts_by_unit |-> c, adjacency |-> adj,
                  id_by_name |-> [i \in 1..3 |-> <<AnyNames[i], i>>],
                  min_tx_per_region |-> m]
    /\ bm = MergeStart
    /\ env = NoEnv /\ calls = << >> /\ br = BuildIdle /\ mp = MapIdle
    /\ io = NoIo /\ ld = LoadIdle

\* the interpreter runs the function on: a step that can be taken is taken
SpecMergeAny == InitMergeAny /\ [][NextMerge]_vars /\ WF_vars(NextMerge)

(* ------------------------------------------------------------------ *)
(* Properties of _balanced_merge                                       *)
(* ------------------------------------------------------------------ *)

Returned == bm.pc = "return"

\* the function of an ordered dict
ODFn(d) == [k \in Range(ODKeys(d)) |-> ODGet(d, k, << >>)]

\* the units appended by the final pass so far
Stragglers == Range(SubSeq(bm.remaining, 1, bm.r - 1))

\* the units reachable from uid along adjacency edges
RECURSIVE Closure(_)
Closure(S) ==
    LET T == S \cup UNION {Range(Get(args.adjacency, x, << >>)) : x \in S}
    IN IF T = S THEN S ELSE Closure(T)

Component(uid) == Closure({uid})

\* the members of a list joined by adjacency edges between members
RECURSIVE ClosureIn(_, _)
ClosureIn(S, M) ==
    LET T == S \cup (M \cap UNION {Range(Get(args.adjacency, x, << >>)) : x \in S})
    IN IF T = S THEN S ELSE ClosureIn(T, M)

ConnectedList(uids) == uids = << >> \/ ClosureIn({uids[1]}, Range(uids)) = Range(uids)

\* C1: every unit name that is a key of id_by_name appears in the returned
\* name -> region map, in exactly one entry, after _balanced_merge returns.
C1_Coverage ==
    Returned =>
        \A i \in 1..Len(args.id_by_name) :
            Cardinality({j \in 1..Len(bm.out) : bm.out[j][1] = args.id_by_name[i][1]}) = 1

\* C2 as stated: in the result, the members of every region of two or more
\* units are connected by adjacency edges between members.
C2_Connectivity ==
    Returned =>
        \A i \in 1..Len(bm.regions) :
            Len(bm.regions[i][2]) >= 2 => ConnectedList(bm.regions[i][2])

\* each unit of the list that the main loop added was adjacent to an earlier one
GrownAlongEdges(uids) ==
    \A j \in 2..Len(uids) :
        uids[j] \notin Stragglers =>
            \E i \in 1..(j - 1) :
                /\ uids[i] \notin Stragglers
                /\ uids[j] \in Range(Get(args.adjacency, uids[i], << >>))

\* C2 amended: at every step, in the region under construction and in every
\* sealed region, each unit the main loop added (every member but the seed
\* and the units appended by the final pass) is adjacent to a main-loop
\* member added before it; the units of the final pass need not be adjacent
\* to anything.
C2_MainLoopConnected ==
    /\ GrownAlongEdges(bm.current)
    /\ \A i \in 1..Len(bm.regions) : GrownAlongEdges(bm.regions[i][2])

\* a returned region of at least two main-loop members and a straggler
C2_Witness ==
    /\ Returned
    /\ \E i \in 1..Len(bm.regions) :
          /\ Range(bm.regions[i][2]) \cap Stragglers # {}
          /\ Cardinality(Range(bm.regions[i][2]) \ Stragglers) >= 2

\* the member-count sum of a region, the units of the final pass left out
MainTotal(uids) == RegionTotal(args, SelectSeq(uids, LAMBDA x : x \notin Stragglers))

\* C3 as stated: in the result, of the regions lying in one connected
\* component of the adjacency graph every one but the last formed has a
\* member-count sum (stragglers left out) >= min_tx_per_region.
C3_SoftThreshold ==
    Returned =>
        \A i, j \in 1..Len(bm.regions) :
            (i < j /\ bm.regions[j][2][1] \in Component(bm.regions[i][2][1]))
                => MainTotal(bm.regions[i][2]) >= args.min_tx_per_region

\* the loop of the region under construction has ended
Sealing == bm.pc = "while" /\ ~WhileCond(bm, args)

\* C3 amended: a region that is the first one formed in its connected
\* component (no unit of the component was assigned before its seed) is
\* sealed with a member-count sum >= min_tx_per_region unless it holds the
\* whole component; regions formed later in the component can each be below.
C3_FirstInComponent ==
    (Sealing /\ Component(bm.current[1]) \cap DOMAIN bm.assigned \subseteq Range(bm.current))
        => \/ RegionTotal(args, bm.current) >= args.min_tx_per_region
           \/ Component(bm.current[1]) \subseteq Range(bm.current)

\* a first region of its component sealed at the threshold with units left over
C3_Witness ==
    /\ Sealing
    /\ Component(bm.current[1]) \cap DOMAIN bm.assigned \subseteq Range(bm.current)
    /\ Len(bm.current) >= 2
    /\ ~(Component(bm.current[1]) \subseteq Range(bm.current))

LabelA == <<"r","e","g","i","a","'","o",":"," ","a">>

\* C12: units A(50), B(80), C(300), adjacency A-B and B-C only, threshold
\* 200: the call returns A, B and C in one region, of total 430, labelled
\* 'regiao: a' (with the tilde).
C12_ChainGrowth ==
    (Returned /\ args = ChainArgs) =>
        /\ bm.regions = << <<LabelA, <<1, 2, 3>> >> >>
        /\ RegionTotal(args, bm.regions[1][2]) = 430
        /\ ODFn(bm.out) = (S_A :> LabelA) @@ (S_B :> LabelA) @@ (S_C :> LabelA)

\* the chain call has returned, C reached through B
C12_Witness ==
    /\ Returned /\ args = ChainArgs
    /\ Len(bm.out) = 3 /\ bm.current = <<1, 2, 3>>

\* 'regiao: ' + the name trimmed and lower-cased
LabelOf(name) == RegionPrefix \o MapChars(LowerChar, Strip(name))

\* the names of the units of a list that have one, in the order of the list
NamesInOrder(uids) ==
    LET named == SelectSeq(uids, LAMBDA u : \E i \in 1..Len(args.id_by_name) :
                                               args.id_by_name[i][2] = u)
    IN [i \in 1..Len(named) |-> NameById(named[i], args.id_by_name)]

\* the region under construction starts with its seed, the unit of the name
\* at hand, and bears the label of that name; so does every stored region
SeedFirst ==
    /\ bm.pc = "while" =>
          /\ bm.current[1] = UnitId(bm, args)
          /\ bm.region_label = LabelOf(UnitName(bm))
    /\ \A i \in 1..Len(bm.regions) :
          bm.regions[i][1] = LabelOf(NameById(bm.regions[i][2][1], args.id_by_name))

\* regions_dict as lines 389-391 build it from the returned map: one entry
\* per region, the names of its units in the order of its list
DictFollowsLists ==
    Returned =>
        LET rd == RegionsDict(bm.out, << >>)
        IN /\ Len(rd) = Len(bm.regions)
           /\ \A i \in 1..Len(rd) :
                 /\ rd[i][1] = bm.regions[i][1]
                 /\ rd[i][2] = NamesInOrder(bm.regions[i][2])
                 /\ rd[i][1] = LabelOf(rd[i][2][1])

\* a step adds a member at the end of a list, or stores the list as it is
AddedLast ==
    /\ (bm.pc = "while" /\ bm'.pc = "while") =>
          bm'.current \in {bm.current, Append(bm.current, Head(bm.frontier))}
    /\ (bm.pc = "while" /\ bm'.pc = "for") =>
          ODGet(bm'.regions, bm.region_label, << >>) = bm.current
    /\ (bm.pc = "remaining" /\ bm'.pc = "remaining" /\ bm.regions # << >>) =>
          /\ Len(bm'.regions) = Len(bm.regions)
          /\ \A i \in 1..Len(bm.regions) :
                bm'.regions[i][2] \in {bm.regions[i][2],
                                       Append(bm.regions[i][2], bm.remaining[bm.r])}

\* C14: every label of regions_dict is 'regiao: ' followed by the trimmed,
\* lower-cased name of the seed of the region, and the list under it starts
\* with the seed and goes on with the other members in the order in which
\* they were added.
C14_LabelAndOrder == []SeedFirst /\ []DictFollowsLists /\ [][AddedLast]_vars

\* a returned region of a seed, a member grown from the frontier and a
\* member of the final pass, in that order
C14_Witness ==
    /\ Returned
    /\ \E i \in 1..Len(bm.regions) :
          /\ Len(bm.regions[i][2]) >= 3
          /\ bm.regions[i][2][2] \notin Stragglers
          /\ bm.regions[i][2][Len(bm.regions[i][2])] \in Stragglers
          /\ Len(RegionsDict(bm.out, << >>)[i][2]) = Len(bm.regions[i][2])

\* the tables a call of the merge can come from
CallTables == MergeGeoTables \cup {ChainGeo, LoneGeo}

\* adj is symmetric, without self-loop and without repetition, has a key for
\* every unit of the table, and holds exactly the pairs sharing a border
WellFormed(adj, df_geo) ==
    /\ DOMAIN adj = Range(UnitIds(df_geo))
    /\ \A a \in DOMAIN adj :
          /\ a \notin Range(adj[a])
          /\ \A i, j \in 1..Len(adj[a]) : i # j => adj[a][i] # adj[a][j]
          /\ \A b \in Range(adj[a]) : b \in DOMAIN adj /\ a \in Range(adj[b])
          /\ \A b \in DOMAIN adj : b \in Range(adj[a]) <=> (a # b /\ {a, b} \in df_geo.border)

\* C15: the map _build_adjacency gives for a table is symmetric, has no
\* self-loop and has a key for every unit of the table, the list of a unit
\* without neighbour being empty.
C15_AdjacencyWellFormed ==
    bm.pc = "sort" =>
        \E g \in CallTables :
            /\ args.adjacency = BuildAdjacency(g)
            /\ args.id_by_name = IdByName(g)
            /\ WellFormed(args.adjacency, g)

\* a map with an edge, a unit without neighbour and two units that meet in a
\* corner only
C15_Witness ==
    /\ bm.pc = "sort"
    /\ \E a \in DOMAIN args.adjacency : args.adjacency[a] = << >>
    /\ \E a \in DOMAIN args.adjacency : Len(args.adjacency[a]) >= 2
    /\ 1 \in DOMAIN args.adjacency /\ 4 \in DOMAIN args.adjacency
    /\ 4 \notin Range(args.adjacency[1])

\* the counts of the units of the list do not decrease along it
AscendingCounts(uids) ==
    \A i, j \in 1..Len(uids) : i < j => CountOfId(args, uids[i]) <= CountOfId(args, uids[j])

\* C16 as stated: every unit popped from the frontier has the lowest count
\* of all the units in the frontier at that moment.
C16_LowestCountPop ==
    (bm.pc = "while" /\ WhileCond(bm, args)) =>
        \A i \in 1..Len(bm.frontier) :
            CountOfId(args, Head(bm.frontier)) <= CountOfId(args, bm.frontier[i])

\* a seeding step leaves the neighbours of the seed in ascending count order;
\* a pop takes the first unit of the frontier and, when it adds the unit,
\* appends at the end its neighbours not yet visited nor assigned, these in
\* ascending count order among themselves
BatchStep ==
    /\ (bm.pc = "for" /\ bm'.pc = "while") =>
          /\ AscendingCounts(bm'.frontier)
          /\ Len(bm'.frontier) = Len(Get(args.adjacency, bm'.current[1], << >>))
          /\ Range(bm'.frontier) = Range(Get(args.adjacency, bm'.current[1], << >>))
    /\ (bm.pc = "while" /\ bm'.pc = "while") =>
          /\ bm'.visited = bm.visited \cup {Head(bm.frontier)}
          /\ Len(bm'.frontier) >= Len(bm.frontier) - 1
          /\ SubSeq(bm'.frontier, 1, Len(bm.frontier) - 1) = Tail(bm.frontier)
          /\ LET batch == SubSeq(bm'.frontier, Len(bm.frontier), Len(bm'.frontier))
             IN /\ AscendingCounts(batch)
                /\ bm'.current = bm.current => batch = << >>
                /\ bm'.current # bm.current =>
                      Range(batch) = {x \in Range(Get(args.adjacency, Head(bm.frontier), << >>)) :
                                         x \notin bm'.visited /\ x \notin DOMAIN bm'.assigned}

\* C16 amended: the frontier is a first-in first-out queue of batches: the
\* neighbours of the seed in ascending count order, then, each time a unit is
\* added, its neighbours not yet visited nor assigned, in ascending count
\* order, appended at the end; the unit popped is the first of the queue,
\* which need not have the lowest count of the whole frontier.
C16_SortedBatches == [][BatchStep]_vars

\* a frontier whose first unit has a larger count than a unit behind it
C16_Witness ==
    /\ bm.pc = "while" /\ WhileCond(bm, args)
    /\ Len(bm.current) >= 2
    /\ \E i \in 1..Len(bm.frontier) :
          CountOfId(args, bm.frontier[i]) < CountOfId(args, Head(bm.frontier))

\* every adjacency neighbour of every unit of the list is assigned
NeighboursAssigned(uids) ==
    \A m \in Range(uids) : Range(Get(args.adjacency, m, << >>)) \subseteq DOMAIN bm.assigned

\* the running total is the member-count sum of the region under
\* construction, and a loop that ends below the threshold ends with an empty
\* frontier and every neighbour of every member assigned
ExhaustedWhenBelow ==
    /\ bm.pc = "while" => bm.total = RegionTotal(args, bm.current)
    /\ (Sealing /\ bm.total < args.min_tx_per_region) =>
          /\ bm.frontier = << >>
          /\ NeighboursAssigned(bm.current)

\* a stored region below the threshold holds a unit of the final pass or
\* has every neighbour of every member assigned
BelowIsExhaustedOrStraggled ==
    \A i \in 1..Len(bm.regions) :
        RegionTotal(args, bm.regions[i][2]) < args.min_tx_per_region =>
            \/ Range(bm.regions[i][2]) \cap Stragglers # {}
            \/ NeighboursAssigned(bm.regions[i][2])

\* one unit A(10) without neighbour, threshold 200: one region of A alone
LoneRegion ==
    (Returned /\ args = LoneArgs) =>
        /\ bm.regions = << <<LabelA, <<1>> >> >>
        /\ RegionTotal(args, bm.regions[1][2]) = 10
        /\ Stragglers = {}

\* C17: a region of the result has a member-count sum below
\* min_tx_per_region only if its growth ended with an exhausted frontier,
\* every adjacency neighbour of every member being assigned when it was
\* sealed, or if the final pass appended a unit to it; a lone unit of count
\* 10 under threshold 200 gives a region of its own below the threshold.
C17_UnderThresholdCauses ==
    /\ []ExhaustedWhenBelow
    /\ []BelowIsExhaustedOrStraggled
    /\ []LoneRegion
    /\ [][AddedLast]_vars

\* a region of two units sealed below the threshold next to another region
C17_Witness ==
    /\ Sealing /\ bm.total < args.min_tx_per_region
    /\ Len(bm.current) >= 2
    /\ \E m \in Range(bm.current) :
          \E n \in Range(Get(args.adjacency, m, << >>)) :
              n \notin Range(bm.current)

\* the list without its last unit
ButLast(uids) == SubSeq(uids, 1, Len(uids) - 1)

\* the units of the list that the main loop put there
MainMembers(uids) == SelectSeq(uids, LAMBDA x : x \notin Stragglers)

\* a list of two main-loop members or more was below the threshold before
\* the last of them was added
BelowBeforeLast(uids) ==
    Len(MainMembers(uids)) >= 2 =>
        RegionTotal(args, ButLast(MainMembers(uids))) < args.min_tx_per_region

GrownBelowThreshold ==
    /\ bm.pc = "while" => BelowBeforeLast(bm.current)
    /\ \A i \in 1..Len(bm.regions) : BelowBeforeLast(bm.regions[i][2])

\* the main loop adds the first unit of the frontier, and only when the
\* running total is below the threshold and the unit is neither visited nor
\* assigned
AddedWhileBelow ==
    (bm.pc = "while" /\ bm'.pc = "while" /\ bm'.current # bm.current) =>
        /\ bm.total < args.min_tx_per_region
        /\ bm.total = RegionTotal(args, bm.current)
        /\ Head(bm.frontier) \notin bm.visited
        /\ Head(bm.frontier) \notin DOMAIN bm.assigned
        /\ bm'.current = Append(bm.current, Head(bm.frontier))
        /\ bm'.total = bm.total + CountOfId(args, Head(bm.frontier))

\* C18: the main loop adds a unit to the region under construction only
\* while the running total is below min_tx_per_region and the unit is
\* neither visited nor assigned; so a region of two main-loop members or
\* more has, without the last one added, a total below min_tx_per_region.
C18_GrowthStopsAtThreshold == []GrownBelowThreshold /\ [][AddedWhileBelow]_vars

\* a loop that ends at the threshold with units left in the frontier
C18_Witness ==
    /\ Sealing
    /\ Len(bm.current) >= 2
    /\ bm.total >= args.min_tx_per_region
    /\ \E x \in Range(bm.frontier) : x \notin DOMAIN bm.assigned

\* the member-count sum of the i-th stored region, as it stands
TotalNow(i) == RegionTotal(args, bm.regions[i][2])

\* the unit the final pass is at
Straggler == bm.remaining[bm.r]

\* a step of the final pass
StragglerStep == bm.pc = "remaining" /\ bm'.pc = "remaining"

\* C19 as stated: the final pass appends each never-assigned unit to the
\* existing region whose member-count total, recomputed at that moment, is
\* the smallest.
C19_AppendToExisting ==
    [][StragglerStep =>
          \E i \in 1..Len(bm.regions) :
              /\ \A j \in 1..Len(bm.regions) : TotalNow(i) <= TotalNow(j)
              /\ bm'.regions[i][2] = Append(bm.regions[i][2], Straggler)]_vars

\* the final pass goes through the units of id_by_name left unassigned by
\* the main loop, each once, in the order of id_by_name
RemainingAreUnassigned ==
    (bm.pc = "for" /\ bm'.pc = "remaining") =>
        /\ Range(bm'.remaining) = Range(ODValues(args.id_by_name)) \ DOMAIN bm.assigned
        /\ \A i, j \in 1..Len(bm'.remaining) : i # j => bm'.remaining[i] # bm'.remaining[j]

\* with no region yet the unit starts a region under the label of its own
\* name; otherwise it goes at the end of the first region, in creation
\* order, of the smallest total, the other regions staying as they are
NewOrSmallest ==
    StragglerStep =>
        /\ Straggler \notin DOMAIN bm.assigned
        /\ bm.regions = << >> =>
              /\ bm'.regions = << <<LabelOf(NameById(Straggler, args.id_by_name)), <<Straggler>> >> >>
              /\ bm'.assigned = Put(bm.assigned, Straggler, bm'.regions[1][1])
        /\ bm.regions # << >> =>
              \E i \in 1..Len(bm.regions) :
                  /\ \A j \in 1..Len(bm.regions) : TotalNow(i) <= TotalNow(j)
                  /\ \A j \in 1..(i - 1) : TotalNow(j) > TotalNow(i)
                  /\ Len(bm'.regions) = Len(bm.regions)
                  /\ bm'.regions[i] = <<bm.regions[i][1], Append(bm.regions[i][2], Straggler)>>
                  /\ \A j \in 1..Len(bm.regions) : j # i => bm'.regions[j] = bm.regions[j]
                  /\ bm'.assigned = Put(bm.assigned, Straggler, bm.regions[i][1])

\* C19 amended: the final pass takes, one at a time and without adjacency
\* check, each unit of id_by_name never assigned; when no region exists the
\* unit starts a new region labelled by its own name, otherwise it is
\* appended to the first region, in creation order, whose member-count
\* total, recomputed at that moment, is the smallest.
C19_NewOrSmallest == [][RemainingAreUnassigned /\ NewOrSmallest]_vars

\* a call without any counted unit: the first unassigned unit started a
\* region and the second was appended to it
C19_Witness ==
    /\ Returned
    /\ Len(bm.remaining) >= 2
    /\ Len(bm.regions) = 1
    /\ bm.regions[1][2] = bm.remaining
    /\ bm.regions[1][1] = LabelOf(NameById(bm.remaining[1], args.id_by_name))

\* the count of a name of counts_by_unit
CountOfName(name) == Get(args.counts_by_unit, name, 0)

\* after the sort, units_sorted holds every name of counts_by_unit once, the
\* counts not decreasing along it, and the names are taken one after another
SortedAscending ==
    bm.pc # "sort" =>
        /\ Range(bm.units_sorted) = DOMAIN args.counts_by_unit
        /\ Len(bm.units_sorted) = Cardinality(DOMAIN args.counts_by_unit)
        /\ \A i, j \in 1..Len(bm.units_sorted) :
              i < j => CountOfName(bm.units_sorted[i]) <= CountOfName(bm.units_sorted[j])
        /\ bm.pc = "while" => bm.current[1] = UnitId(bm, args)

\* the loop of lines 249-279 seeds a region at the name at hand when the
\* name has an id that is not assigned, and passes it otherwise; the seed is
\* a new region of that unit alone, and no seed of a stored region has a
\* larger count
SeedOrSkip ==
    /\ (bm.pc = "for" /\ bm'.pc = "while") =>
          /\ UnitId(bm, args) # NoId
          /\ UnitId(bm, args) \notin DOMAIN bm.assigned
          /\ bm'.current = <<UnitId(bm, args)>>
          /\ bm'.k = bm.k
          /\ \A i \in 1..Len(bm.regions) :
                CountOfId(args, bm.regions[i][2][1]) <= CountOfName(UnitName(bm))
    /\ (bm.pc = "for" /\ bm'.pc = "for") =>
          /\ UnitId(bm, args) = NoId \/ UnitId(bm, args) \in DOMAIN bm.assigned
          /\ bm'.k = bm.k + 1
          /\ bm'.regions = bm.regions
    /\ (bm.pc = "while" /\ bm'.pc = "for") => bm'.k = bm.k + 1

\* C20: the names of counts_by_unit are taken in ascending count order and a
\* region is seeded at each one that is a unit not yet assigned; the seeds
\* come in non-decreasing count order and a unit taken by an earlier region
\* never seeds one.
C20_SeedOrder == []SortedAscending /\ [][SeedOrSkip]_vars

\* a seed of larger count than the first seed, after a name was passed
\* because an earlier region had taken its unit
C20_Witness ==
    /\ bm.pc = "while" /\ Len(bm.current) = 1
    /\ bm.regions # << >>
    /\ CountOfId(args, bm.regions[1][2][1]) < CountOfId(args, bm.current[1])
    /\ \E i \in 1..(bm.k - 1) : \E j \in 1..Len(bm.regions) :
          \E n \in 2..Len(bm.regions[j][2]) :
              ODGet(args.id_by_name, bm.units_sorted[i], NoId) = bm.regions[j][2][n]

\* a unit is assigned a label exactly when the list stored under the label
\* holds it
AssignedIffListed ==
    bm.pc = "for" =>
        \A u \in Range(ODValues(args.id_by_name)) : \A i \in 1..Len(bm.regions) :
            (u \in DOMAIN bm.assigned /\ bm.assigned[u] = bm.regions[i][1])
                <=> u \in Range(bm.regions[i][2])

\* a label given to a unit stays, and a sealing step leaves the lists stored
\* before it as they are
LabelsAndListsKept ==
    /\ \A u \in DOMAIN bm.assigned : u \in DOMAIN bm'.assigned /\ bm'.assigned[u] = bm.assigned[u]
    /\ (bm.pc = "while" /\ bm'.pc = "for") =>
          /\ Len(bm'.regions) = Len(bm.regions) + 1
          /\ \A i \in 1..Len(bm.regions) : bm'.regions[i] = bm.regions[i]

\* C25: the label given to a unit never changes; after every sealing step a
\* unit is assigned label L exactly when it is in the list stored under L;
\* sealing a region never removes or replaces the list of a region sealed
\* before.
C25_AssignedAndListsAgree == []AssignedIffListed /\ [][LabelsAndListsKept]_vars

\* the final pass has begun
InFinalPass == bm.pc \in {"remaining", "return"}

\* C27: every unit the final pass handles has count 0, every unit with an
\* entry in counts_by_unit and in id_by_name being assigned by the main loop;
\* so the units of the final pass add nothing to the total of a region and
\* all go to one and the same region.
C27_StragglersCountless ==
    InFinalPass =>
        /\ \A u \in Range(bm.remaining) : CountOfId(args, u) = 0
        /\ \A n \in DOMAIN args.counts_by_unit :
              ODGet(args.id_by_name, n, NoId) \notin Range(bm.remaining)
        /\ \A i \in 1..Len(bm.regions) :
              RegionTotal(args, bm.regions[i][2]) = MainTotal(bm.regions[i][2])
        /\ Stragglers # {} =>
              \E i \in 1..Len(bm.regions) :
                  /\ Stragglers \subseteq Range(bm.regions[i][2])
                  /\ \A j \in 1..Len(bm.regions) :
                        j # i => Stragglers \cap Range(bm.regions[j][2]) = {}

\* two units of the final pass in one of two regions of equal total
C27_Witness ==
    /\ Returned
    /\ Len(bm.remaining) >= 2
    /\ Len(bm.regions) >= 2
    /\ TotalNow(1) = TotalNow(2)
    /\ Range(bm.remaining) \subseteq Range(bm.regions[1][2])
    /\ Len(bm.regions[1][2]) > Len(bm.remaining)

\* the unit has an entry in counts_by_unit
Counted(u) == NameById(u, args.id_by_name) \in DOMAIN args.counts_by_unit

\* no counted unit of the list has a smaller count than the first unit
SeedSmallest(uids) ==
    \A j \in 2..Len(uids) :
        Counted(uids[j]) => CountOfId(args, uids[1]) <= CountOfId(args, uids[j])

\* C28: in every region _balanced_merge builds, the count of the seed is at
\* most the count of every other member that has an entry in
\* counts_by_unit.
C28_SeedSmallest ==
    /\ bm.pc = "while" => SeedSmallest(bm.current)
    /\ \A i \in 1..Len(bm.regions) : SeedSmallest(bm.regions[i][2])

\* a returned region of a seed, a member of larger count and a member
\* without count
C28_Witness ==
    /\ Returned
    /\ \E i \in 1..Len(bm.regions) :
          LET uids == bm.regions[i][2]
          IN /\ Counted(uids[1])
             /\ \E j \in 2..Len(uids) :
                   Counted(uids[j]) /\ CountOfId(args, uids[1]) < CountOfId(args, uids[j])
             /\ \E j \in 2..Len(uids) : ~Counted(uids[j]) /\ uids[j] \notin Stragglers

\* no name of counts_by_unit is a key of id_by_name
NoCountedUnit == \A n \in DOMAIN args.counts_by_unit : ~ODHas(args.id_by_name, n)

\* C29: when no name of counts_by_unit is a key of id_by_name and
\* id_by_name is not empty, the call makes one region, labelled after the
\* first unit of id_by_name, and every unit of id_by_name is in it, whatever
\* the adjacency.
C29_OneRegionOfAll ==
    (Returned /\ NoCountedUnit /\ args.id_by_name # << >>) =>
        /\ bm.regions = << <<LabelOf(args.id_by_name[1][1]), ODValues(args.id_by_name)>> >>
        /\ Len(bm.out) = Len(args.id_by_name)
        /\ \A i \in 1..Len(args.id_by_name) :
              ODGet(bm.out, args.id_by_name[i][1], << >>) = LabelOf(args.id_by_name[1][1])

\* a call whose only counted name is no unit, on three units without any
\* border
C29_Witness ==
    /\ Returned /\ NoCountedUnit
    /\ args.counts_by_unit # EmptyMap
    /\ Len(args.id_by_name) = 3
    /\ \A u \in DOMAIN args.adjacency : args.adjacency[u] = << >>
    /\ Len(bm.regions) = 1 /\ Len(bm.regions[1][2]) = 3

(* ------------------------------------------------------------------ *)
(* Properties of _map_bairro_to_official                               *)
(* ------------------------------------------------------------------ *)

Mapped == mp.pc = "return"

\* the values of the bairro_oficial column of the manual file
ManualValues == {env.manual_csv.rows[k][2] : k \in 1..Len(env.manual_csv.rows)}

\* C8 as stated: the returned map has one entry per raw label and each value
\* is one of the official names or the raw label itself.
C8_Totality ==
    Mapped =>
        /\ DOMAIN mp.mapping = Range(mp.bairros)
        /\ \A b \in DOMAIN mp.mapping :
              mp.mapping[b] \in Range(mp.official_names) \/ mp.mapping[b] = b

\* C8 amended: the map holds one entry per raw label processed (all of them
\* at the return), and each value is one of the official names, the raw
\* label itself, or the value the manual override file gives for the label,
\* which need not be an official name.
C8_TotalityWithManual ==
    /\ mp.pc = "loop" => DOMAIN mp.mapping = Range(SubSeq(mp.bairros, 1, mp.i - 1))
    /\ Mapped => DOMAIN mp.mapping = Range(mp.bairros)
    /\ \A b \in DOMAIN mp.mapping :
          \/ mp.mapping[b] \in Range(mp.official_names)
          \/ mp.mapping[b] = b
          \/ mp.mapping[b] \in ManualValues

\* a label mapped by the manual file to a name that is no official name
C8_Witness ==
    /\ Mapped
    /\ \E b \in DOMAIN mp.mapping :
          /\ mp.mapping[b] \notin Range(mp.official_names)
          /\ mp.mapping[b] # b

\* the rows of the manual file whose normalized bairro is the normalized label
ManualRowsOf(b) ==
    {k \in 1..Len(env.manual_csv.rows) : Normalize(env.manual_csv.rows[k][1]) = Normalize(b)}

HasExact(b) == \E n \in Range(mp.official_names) : Normalize(n) = BNorm(b)

HasFuzzy(b) ==
    \E n \in Range(mp.official_names) : RatioAtLeast(Normalize(n), BNorm(b), FuzzyCutoffPct)

\* C9: for each raw label, the manual override value when the normalized label
\* is a key of the manual table; otherwise an official name whose normalized
\* form equals the normalized label (after the synonyms) when there is one;
\* otherwise an official name of the greatest similarity, when that reaches
\* the cutoff; otherwise the raw label itself.
C9_Precedence ==
    \A b \in DOMAIN mp.mapping :
        IF env.manual_csv.exists /\ ManualRowsOf(b) # {}
        THEN mp.mapping[b] =
                env.manual_csv.rows[CHOOSE k \in ManualRowsOf(b) :
                                        \A j \in ManualRowsOf(b) : j <= k][2]
        ELSE IF HasExact(b)
        THEN /\ mp.mapping[b] \in Range(mp.official_names)
             /\ Normalize(mp.mapping[b]) = BNorm(b)
        ELSE IF HasFuzzy(b)
        THEN /\ mp.mapping[b] \in Range(mp.official_names)
             /\ RatioAtLeast(Normalize(mp.mapping[b]), BNorm(b), FuzzyCutoffPct)
             /\ \A n \in Range(mp.official_names) :
                   ~RatioLess(Normalize(mp.mapping[b]), Normalize(n), BNorm(b))
        ELSE mp.mapping[b] = b

\* a label the manual table sends away from its exact match, beside a label
\* matched by similarity only
C9_Witness ==
    /\ Mapped
    /\ \E b \in DOMAIN mp.mapping :
          /\ ManualRowsOf(b) # {} /\ HasExact(b)
          /\ Normalize(mp.mapping[b]) # BNorm(b)
    /\ \E b \in DOMAIN mp.mapping :
          /\ ManualRowsOf(b) = {} /\ ~HasExact(b) /\ HasFuzzy(b)
          /\ mp.mapping[b] # b

(* ------------------------------------------------------------------ *)
(* build_regions_for_recife called again and again                     *)
(* ------------------------------------------------------------------ *)

ShortDfs == UNION {[1..n -> DfLabels] : n \in 0..(MaxRows - 1)}

InitAgain ==
    /\ \E csv \in BuildCsvs : \E lg \in LocalGeos : \E rg \in RemoteGeos :
          env = [manual_csv |-> csv, local_geo |-> lg, remote_geo |-> rg]
    /\ \E df \in ShortDfs : \E m \in {1, MaxMinTx} :
          br = [BuildIdle EXCEPT !.pc = "start", !.df = df, !.min_tx_per_region = m]
    /\ calls = << >> /\ mp = MapIdle /\ args = NoArgs /\ bm = MergeIdle
    /\ io = NoIo /\ ld = LoadIdle

\* the tables of the next call: the same one, or the one without its first row
NextDfs(df) == IF df = << >> THEN {df} ELSE {df, Tail(df)}

\* line 346: the caller calls again, in the same process; what the calls
\* before left behind (the locals of the helpers) is still in memory
BCallAgain ==
    /\ br.pc = "done"
    /\ \E df \in NextDfs(br.df) :
          br' = [BuildIdle EXCEPT !.pc = "start", !.df = df,
                                  !.min_tx_per_region = br.min_tx_per_region]
    /\ calls' = << >>
    /\ UNCHANGED <<io, ld, env, mp, args, bm>>

NextAgain ==
    \/ BEmptyReturn \/ BLoadBairros \/ BMapBairros \/ BLoadSubs \/ BMapSubs
    \/ BMerge \/ BReturnSpatial \/ BFallback \/ BCallAgain

SpecAgain == InitAgain /\ [][NextAgain]_vars

(* ------------------------------------------------------------------ *)
(* Properties of build_regions_for_recife                              *)
(* ------------------------------------------------------------------ *)

Done == br.pc = "done"

\* the member lists of the returned dictionary, and the names in them
MemberLists == ODValues(br.result.regions)
Members == UNION {Range(MemberLists[i]) : i \in 1..Len(MemberLists)}

ListsDisjoint ==
    /\ \A i \in 1..Len(MemberLists) : \A j, k \in 1..Len(MemberLists[i]) :
          j # k => MemberLists[i][j] # MemberLists[i][k]
    /\ \A i, j \in 1..Len(MemberLists) :
          i # j => Range(MemberLists[i]) \cap Range(MemberLists[j]) = {}

\* the unit names of a table
NamesOf(geo) == Range(UnitNames(geo))

\* no two labels of the input agree up to case and surrounding whitespace
LabelsApart == \A x, y \in Range(br.df) : x # y => RegionLabel(x) # RegionLabel(y)

C6_SourceOrder ==
    /\ calls \in {<< >>, <<"bairros">>, <<"bairros", "ibge">>}
    /\ Len(calls) = 2 => GeoEmpty(env.local_geo)
    /\ (Done /\ br.df # << >>) =>
          /\ br.result.source = "bairros" <=> ~GeoEmpty(env.local_geo)
          /\ br.result.source = "ibge" <=> (GeoEmpty(env.local_geo) /\ ~GeoEmpty(env.remote_geo))
          /\ br.result.source = "fallback" <=> (GeoEmpty(env.local_geo) /\ GeoEmpty(env.remote_geo))
          /\ br.result.source = "bairros" =>
                calls = <<"bairros">> /\ Members \subseteq NamesOf(env.local_geo)
          /\ br.result.source = "ibge" =>
                calls = <<"bairros", "ibge">> /\ Members \subseteq NamesOf(env.remote_geo)
          /\ br.result.source = "fallback" =>
                calls = <<"bairros", "ibge">> /\ Members \subseteq Range(br.df)

\* the remote table used after the local loader returned nothing
C6_Witness ==
    /\ Done /\ br.result.source = "ibge" /\ calls = <<"bairros", "ibge">>
    /\ Members # {}

\* C7: on an input with no rows no loader is called at any point, and the
\* call returns no region, the source 'fallback', and a table with no row
\* (so no non-null regiao).
C7_EmptyInput ==
    br.df = << >> =>
        /\ calls = << >>
        /\ br.pc \in {"start", "done"}
        /\ Done => br.result = [df_out |-> << >>, regions |-> << >>, source |-> "fallback"]

\* the empty input returned while the local file holds a table
C7_Witness == Done /\ br.df = << >> /\ ~GeoEmpty(env.local_geo) /\ calls = << >>

\* the labels the fuzzy step decides: no manual row, no exact match
FuzzyDecides(b) ==
    /\ ~ManualHit(b, mp.manual)
    /\ ~ExactHit(b, mp.official_names)

\* the best similarity of the label to a unit name is at least pct/100
BestReaches(b, pct) ==
    \E n \in Range(mp.official_names) : RatioAtLeast(Normalize(n), BNorm(b), pct)

OnBairros == br.pc = "bairros_mapped"
OnSubs == br.pc = "ibge_mapped"

RunTotal(counts, order, s, e) == SumSeq([k \in 1..(e - s + 1) |-> counts[order[s + k - 1]]])

\* the member list is the run order[s..e], sealed at e
SealedRun(counts, order, region, s, e) ==
    /\ region[2] = SubSeq(order, s, e)
    /\ region[1] = RegionPrefix \o MapChars(LowerChar, Strip(order[s]))
    /\ RunTotal(counts, order, s, e - 1) < br.min_tx_per_region
    /\ RunTotal(counts, order, s, e) >= br.min_tx_per_region \/ e = Len(order)

\* C13: on the fallback path there is an ascending-count order of the
\* distinct labels of which every region is a contiguous run, labelled
\* 'regiao: ' + its first member trimmed and lower-cased, whose total reaches
\* min_tx_per_region at its last member and not before, or that ends the
\* order; every row gets the label of the region holding its label; for 10
\* rows of X, 15 of Y, 300 of Z and threshold 20 the regions are
\* 'regiao: x' = [X, Y] and 'regiao: z' = [Z], the source 'fallback'.
C13_FallbackBuckets ==
    (Done /\ br.result.source = "fallback" /\ br.df # << >>) =>
        LET counts == ValueCounts(br.df)
            regs   == br.result.regions
        IN /\ \E order \in AscendingOrders(counts) :
                 \A i \in 1..Len(regs) :
                     \E s \in 1..Len(order) : \E e \in s..Len(order) :
                         SealedRun(counts, order, regs[i], s, e)
           /\ \A r \in 1..Len(br.df) : \A i \in 1..Len(regs) :
                 br.df[r] \in Range(regs[i][2]) => br.result.df_out[r].regiao = regs[i][1]
           /\ LabelsApart => Members = Range(br.df)
           /\ (br.df = XyzDf /\ br.min_tx_per_region = 20) =>
                 regs = << <<RegionPrefix \o <<"x">>, <<S_X, S_Y>> >>,
                           <<RegionPrefix \o <<"z">>, <<S_Z>> >> >>

\* the table of X, Y and Z bucketed without geometry
C13_Witness ==
    /\ Done /\ br.result.source = "fallback"
    /\ br.df = XyzDf /\ br.min_tx_per_region = 20
    /\ Len(br.result.regions) = 2

\* the number of rows of the input that carry a label of the list
ListTotal(bs) == SumSeq([k \in 1..Len(bs) |-> ValueCounts(br.df)[bs[k]]])

\* the regions of the fallback result whose total is below the threshold
BelowThreshold ==
    {i \in 1..Len(br.result.regions) :
        ListTotal(br.result.regions[i][2]) < br.min_tx_per_region}

\* C26: in the result of _balanced_regions_without_geo at most one region
\* has a total below min_tx_per_region, and it is the one sealed last: its
\* last member comes last in the ascending order, no label has a larger
\* count.
C26_FallbackThreshold ==
    (Done /\ br.result.source = "fallback" /\ br.df # << >>) =>
        /\ Cardinality(BelowThreshold) <= 1
        /\ \A i \in BelowThreshold :
              LET bs == br.result.regions[i][2]
              IN \A b \in Range(br.df) : ValueCounts(br.df)[b] <= ValueCounts(br.df)[bs[Len(bs)]]

\* a fallback result of a region that reached the threshold and a last one
\* below it
C26_Witness ==
    /\ Done /\ br.result.source = "fallback"
    /\ Len(br.result.regions) >= 2
    /\ Cardinality(BelowThreshold) = 1
    /\ \E i \in 1..Len(br.result.regions) : Len(br.result.regions[i][2]) >= 2

\* the table of the spatial path taken
UsedGeo == IF ~GeoEmpty(br.bairros_geo) THEN br.bairros_geo ELSE br.subs_geo

\* the _balanced_merge call of a spatial path has returned
Merged == br.pc \in {"bairros_merged", "ibge_merged"} \/ (br.pc = "done" /\ br.result.source # "fallback")

\* the labels of the input that the mapping left as they are, no unit of
\* the table bearing the name
IdentityLabels == {b \in Range(br.df) : br.bairro_to_off[b] = b /\ b \notin NamesOf(UsedGeo)}

\* the rows of the input that carry one of the labels
RowsOf(labels) == {i \in 1..Len(br.df) : br.df[i] \in labels}

\* the sum of the member-count totals of the regions of the merge
AllRegionsTotal == SumSeq([i \in 1..Len(bm.regions) |-> RegionTotal(args, bm.regions[i][2])])

\* C21: a label of the input that matched no unit and was mapped to itself
\* is counted but passed over by _balanced_merge, is in no region list, adds
\* its count to no region total, and its rows get the label 'regiao: ' + the
\* label trimmed and lower-cased, which is the label of no region.
C21_IdentityApart ==
    Merged =>
        /\ \A b \in IdentityLabels :
              /\ b \in DOMAIN args.counts_by_unit
              /\ ODGet(args.id_by_name, b, NoId) = NoId
              /\ ~ODHas(bm.out, b)
              /\ \A i \in 1..Len(bm.regions) : \A u \in Range(bm.regions[i][2]) :
                    NameById(u, args.id_by_name) # b
              /\ Done =>
                    /\ b \notin Members
                    /\ LabelOf(b) \notin Range(ODKeys(br.result.regions))
                    /\ \A i \in RowsOf({b}) : br.result.df_out[i].regiao = LabelOf(b)
        /\ AllRegionsTotal + Cardinality(RowsOf(IdentityLabels)) <= Len(br.df)

\* a returned table with rows of a label mapped to itself beside rows of a
\* label mapped to a unit
C21_Witness ==
    /\ Done /\ br.result.source = "bairros"
    /\ IdentityLabels # {}
    /\ \E b \in Range(br.df) : b \notin IdentityLabels /\ br.bairro_to_off[b] \in Members
    /\ Cardinality(RowsOf(IdentityLabels)) >= 2

\* the keys of the returned dictionary under which the name is listed
KeysListing(name) ==
    {br.result.regions[k][1] : k \in {j \in 1..Len(br.result.regions) :
                                         name \in Range(br.result.regions[j][2])}}

\* the returned dictionary lists a name under a label exactly when the map
\* _balanced_merge returned gives the name that label
ReverseOfMapping ==
    /\ Range(ODKeys(br.result.regions)) = Range(ODValues(br.mapping))
    /\ \A k \in 1..Len(br.result.regions) :
          /\ \A n \in Range(br.result.regions[k][2]) :
                ODGet(br.mapping, n, << >>) = br.result.regions[k][1]
          /\ \A j \in 1..Len(br.mapping) :
                br.mapping[j][2] = br.result.regions[k][1] =>
                    br.mapping[j][1] \in Range(br.result.regions[k][2])

\* C22: on a spatial path the regiao of every row whose label is mapped to
\* a unit of the table is the one key of regions_dict that lists the unit,
\* and regions_dict is the reverse of the map _balanced_merge returned.
C22_RowAgrees ==
    (Done /\ br.result.source \in {"bairros", "ibge"}) =>
        /\ ReverseOfMapping
        /\ \A i \in 1..Len(br.df) :
              br.bairro_to_off[br.df[i]] \in NamesOf(UsedGeo) =>
                  KeysListing(br.bairro_to_off[br.df[i]]) = {br.result.df_out[i].regiao}

(* ------------------------------------------------------------------ *)
(* Properties of the geometry loaders                                  *)
(* ------------------------------------------------------------------ *)

\* C11: whatever the candidate files hold and whatever the requests answer,
\* neither loader raises: each ends by returning a table.
C11_NeverRaises == ld.pc # "raised"

\* the remote loader is running, or has returned
InSubs == ld.fn = "subs" /\ ld.pc \in {"for", "return"}

\* the requests of a subdistrict that answer 200 with a body that is not empty
Successes(tries) == {k \in 1..Len(tries) : tries[k].ok /\ tries[k].body # JNull}

\* the body of the first successful request of the subdistrict, if any
FirstSuccess(tries) ==
    IF Successes(tries) = {} THEN JNull
    ELSE tries[CHOOSE k \in Successes(tries) : \A m \in Successes(tries) : k <= m].body

\* the entry of the list gives a row: it has an id and a name, a request for
\* its polygon succeeds and the body holds a geometry that shape accepts
Loadable(s) ==
    IF ~EntryUsable(s) THEN FALSE
    ELSE LET gj == FirstSuccess(io.malha[s.id])
         IN IF gj = JNull \/ BodyRaises(gj) THEN FALSE
            ELSE IF FirstFeatureRaises(gj) THEN FALSE
            ELSE IF NoGeometry(gj) THEN FALSE
            ELSE ~ShapeRaises(gj)

\* the rows of the loadable entries among the first n of the list
LoadableRows(n) ==
    LET es == SelectSeq(SubSeq(ld.subs.items, 1, n), Loadable)
    IN [i \in 1..Len(es) |-> Unit(es[i].id, es[i].nome)]

\* the polygon of a subdistrict is the body of its first successful request;
\* the rows gathered are those of the loadable entries passed so far, and the
\* table returned holds every loadable entry of the list; a list request that
\* fails gives an empty list and an empty table
FetchedInOrder ==
    /\ (InSubs /\ Iterable(ld.subs)) =>
          /\ \A i \in 1..Len(ld.subs.items) :
                EntryUsable(ld.subs.items[i]) =>
                    IbgeGetSubdistritoGeojson(io.malha[ld.subs.items[i].id])
                        = FirstSuccess(io.malha[ld.subs.items[i].id])
          /\ ld.pc = "for" => ld.rows = LoadableRows(ld.s - 1)
          /\ ld.pc = "return" => ld.ret = LoadableRows(Len(ld.subs.items))
    /\ (ld.fn = "subs" /\ ld.pc # "list" /\ ~io.list_response.ok) =>
          /\ ld.subs = Json("list", << >>, "absent")
          /\ ld.rows = << >>
          /\ ld.pc \in {"for", "return"}
          /\ ld.pc = "return" => GeoEmpty([EmptyGeo EXCEPT !.rows = ld.ret])

\* an entry none of whose requests succeeds is passed over, the rows staying
\* as they are and the loop going on with the next entry
FailedFetchSkipped ==
    (InEntries /\ EntryUsable(Sub) /\ Successes(io.malha[Sub.id]) = {}) =>
        (ld' # ld => ld' = [ld EXCEPT !.s = ld.s + 1])

\* C23: in _load_subdistritos_geometries the polygon of a subdistrict is
\* the answer of the first endpoint variant that succeeds; a subdistrict none
\* of whose variants succeeds is omitted and the others are loaded all the
\* same; when the list request fails the table is empty.
C23_PartialFailure == []FetchedInOrder /\ [][FailedFetchSkipped]_vars

\* a table returned with the one subdistrict fetched at the third variant,
\* the subdistrict before it in the list having failed on every variant
C23_Witness ==
    /\ ld.fn = "subs" /\ ld.pc = "return"
    /\ Len(ld.subs.items) = 3
    /\ Successes(io.malha[7]) = {}
    /\ Successes(io.malha[8]) = {3}
    /\ ld.ret = <<Unit(8, S_Gracas)>>

(* ------------------------------------------------------------------ *)
(* Termination of _balanced_merge                                      *)
(* ------------------------------------------------------------------ *)

\* no unit occurs twice in the list
NoRepeat(uids) == \A i, j \in 1..Len(uids) : i # j => uids[i] # uids[j]

\* a unit is in one list at most, once: the lists stored and the list under
\* construction hold no unit twice and share no unit
AddedOnce ==
    /\ NoRepeat(bm.current)
    /\ \A i \in 1..Len(bm.regions) :
          /\ NoRepeat(bm.regions[i][2])
          /\ \A j \in 1..Len(bm.regions) :
                i # j => Range(bm.regions[i][2]) \cap Range(bm.regions[j][2]) = {}
          /\ bm.pc = "while" /\ bm.regions[i][1] # bm.region_label =>
                Range(bm.regions[i][2]) \cap Range(bm.current) = {}

\* C24: on any counts, any adjacency (cycles, self-loops and repeated
\* neighbour entries included) and any threshold, the frontier loop of every
\* region ends, the call returns, and a unit is added to a region at most
\* once although it can be in the frontier several times.
C24_Termination ==
    /\ <>Returned
    /\ (bm.pc = "while") ~> (bm.pc = "for")
    /\ []AddedOnce

\* a frontier that holds a unit twice, the unit being a member already
C24_Witness ==
    /\ bm.pc = "while" /\ WhileCond(bm, args)
    /\ \E i, j \in 1..Len(bm.frontier) :
          i # j /\ bm.frontier[i] = bm.frontier[j] /\ bm.frontier[i] \in Range(bm.current)
    /\ Len(bm.current) >= 2

(* ------------------------------------------------------------------ *)
(* Frame of build_regions_for_recife                                   *)
(* ------------------------------------------------------------------ *)

\* the table returned has the rows of the input, in their order, each with
\* its regiao
SameRows ==
    Done =>
        /\ Len(br.result.df_out) = Len(br.df)
        /\ \A i \in 1..Len(br.df) :
              /\ br.result.df_out[i].bairro = br.df[i]
              /\ Len(br.result.df_out[i].regiao) > Len(RegionPrefix)

\* what a call returns is what a call on the same table, threshold, files
\* and service returns, whatever calls came before
SameAsFirstCall ==
    Done => br.result \in BuildRegionsForRecife(br.df, br.min_tx_per_region, env)

\* a call leaves its table, its threshold, the files and the service as
\* they are
InputKept ==
    /\ env' = env
    /\ br.pc # "done" =>
          /\ br'.df = br.df
          /\ br'.bairro_col = br.bairro_col
          /\ br'.min_tx_per_region = br.min_tx_per_region

====
